---- MODULE Spec2Model ----
(***************************************************************************)
(* Seeding / snapshot orchestration of scripts/seed.py.                    *)
(*                                                                         *)
(*   Spec        the snapshot resolver ensure_snapshot_exists driven by    *)
(*               seed_remote: recursion over diff bases, the session       *)
(*               life cycle of one snapshot creation, the platform calls   *)
(*               it issues (recorded in log).                              *)
(*   SpecFetch   fetch_with_retry against a transport that answers each    *)
(*               attempt with a status or an exception.                    *)
(*   SpecIndex   poll_index_creation_status against a status endpoint.     *)
(*                                                                         *)
(* In Spec one HTTP call made through fetch_with_retry is one step whose   *)
(* result is one of the results fetch_with_retry can have (a success, a    *)
(* non-success response or an exception); SpecFetch models the retries.    *)
(* The platform is the environment: what kubectl and the orchestrator      *)
(* answer is chosen nondeterministically, consistently with what the run   *)
(* has already observed or changed.                                        *)
(***************************************************************************)
EXTENDS Integers, Sequences, FiniteSets, TLC

VARIABLES
    \* ---- inputs of a seed_remote invocation (fixed after Init)
    tree,             \* seed files of the folder: stem -> "full" or a base_id
    folder,           \* name of the directory that holds the seed files
    json_files,       \* collect_json_files(path): the top-level files
    overwrite,
    dry_run,
    fire_and_forget,
    \* ---- state of the run
    invocation,       \* "first", or the invocation that follows it: "same_args"
                      \* (identical arguments) or "after_dry_run" (the real run)
    fileIdx,          \* index in json_files of the top-level file in progress
    stack,            \* active ensure_snapshot_exists calls, innermost last
    visited,
    processed_snapshots,
    outcome,          \* of the invocation: "running", "ok" or the error raised
    firstOutcome,     \* outcome of invocation 1, once invocation 2 started
    \* ---- platform
    present,          \* volume snapshots the run knows to exist
    absent,           \* volume snapshots the run knows not to exist
    nextSid,          \* next session id the orchestrator hands out
    log,              \* platform calls the invocation has issued, in order
    \* ---- fetch_with_retry (SpecFetch)
    fr,
    \* ---- poll_index_creation_status (SpecIndex)
    ix,
    \* ---- one snapshot-creation session, its data calls one by one (SpecSession)
    sd,
    \* ---- the mutation plan of seed_full_data (SpecPlan)
    pl,
    \* ---- seed_remote up to its loop over json_files (SpecCli)
    cli,
    \* ---- calculate_snapshot_name (SpecName)
    nm,
    \* ---- one polling loop (SpecPoll)
    lp

vars == <<tree, folder, json_files, overwrite, dry_run, fire_and_forget,
          invocation, fileIdx, stack, visited, processed_snapshots, outcome,
          firstOutcome, present, absent, nextSid, log, fr, ix, sd, pl, cli, nm, lp>>

inputVars == <<tree, folder, json_files, overwrite, dry_run, fire_and_forget>>
resolverVars == <<invocation, fileIdx, stack, visited, processed_snapshots,
                  outcome, firstOutcome, present, absent, nextSid, log>>

unitVars == <<sd, pl, cli, nm, lp>>

None == "None"
NoName == <<>>                    \* no snapshot name (None where a name is expected)

\* a function that has not been called
NotCalled == [pc |-> "idle"]
UnitsIdle ==
    sd = NotCalled /\ pl = NotCalled /\ cli = NotCalled /\ nm = NotCalled /\ lp = NotCalled

-----------------------------------------------------------------------------
(* Seed files and names *)

Stems == {"a", "b", "c"}
INITIAL_DATA_SPECIAL_ID == "initial_data"
MissingId == "zz"                 \* a base_id for which the folder has no file
BaseIds == Stems \cup {INITIAL_DATA_SPECIAL_ID, MissingId}
Full == "full"                    \* content of a full seed file
Folders == {"jd", "tmp"}

\* app folder -> the path of its initial data file (as path components)
APP_INITIAL_DATA_MAPPING ==
    [app \in {"jd"} |-> <<app, "app", "initial_data">>]

\* app folder -> is there an indices file
APP_INDICES_MAPPING == {"jd"}

\* A path is the sequence of its components; the last is the file's name
\* (the seed files of the resolver are written without their .json suffix).
PathOf(dir, stem) == <<dir, stem>>
ParentName(path) == path[Len(path) - 1]

\* Path.stem: the file name without its last suffix
PathStem(filename) ==
    CASE filename = "login_flow.json" -> "login_flow"
      [] filename = "initial_data.json" -> "initial_data"
      [] filename = "x_y_z.json" -> "x_y_z"
      [] filename = "seed.v2.json" -> "seed.v2"
      [] filename = "a.json" -> "a"
      [] OTHER -> filename
StemOf(path) == PathStem(path[Len(path)])

\* Path.resolve(): a relative path is taken from the working directory
Cwd == <<"repo", "dojo">>
Resolve(path) == Cwd \o path

\* The characters of an identifier, as far as "_" and "-" are concerned.
Chars(s) ==
    CASE s = "initial_data" -> <<"initial", "_", "data">>
      [] s = "login_flow" -> <<"login", "_", "flow">>
      [] s = "x_y_z" -> <<"x", "_", "y", "_", "z">>
      [] s = "my_app" -> <<"my", "_", "app">>
      [] OTHER -> <<s>>

\* Faulty variant: only the first underscore is replaced.
SubUnderscore_FirstOnly(raw) ==
    [i \in DOMAIN raw |->
        IF raw[i] = "_" /\ \A j \in 1..(i - 1) : raw[j] # "_" THEN "-" ELSE raw[i]]

\* re.sub(r"_", "-", raw_name)
SubUnderscore(raw) == [i \in DOMAIN raw |-> IF raw[i] = "_" THEN "-" ELSE raw[i]]

\* "if app_context": None and the empty string both count as not given
Given(app_context) == app_context \notin {None, ""}

calculate_snapshot_name(json_path, app_context) ==
    LET path == Resolve(json_path)
        filename == StemOf(path)
        fold == IF Given(app_context) THEN app_context ELSE ParentName(path)
        raw_name == Chars(fold) \o <<"-">> \o Chars(filename)
    IN  SubUnderscore(raw_name)

\* the copy of the function in check_snapshot_status.py
status_calculate_snapshot_name(json_path, app_context) ==
    LET path == Resolve(json_path)
        filename == StemOf(path)
        fold == IF Given(app_context) THEN app_context ELSE ParentName(path)
        raw_name == Chars(fold) \o <<"-">> \o Chars(filename)
    IN  SubUnderscore(raw_name)

MeiliName(snapshot_name) == <<"meilisearch", "-">> \o snapshot_name

\* What open(full_path) + json.load give: "missing" when there is no such file.
FileContent(path) ==
    IF Len(path) = 3 THEN Full
    ELSE IF StemOf(path) \in Stems THEN tree[StemOf(path)] ELSE "missing"

\* Faulty variant: no file is taken for a diff, so no base is ever resolved.
is_diff_seed_file_Never(data) == FALSE

\* lines 103-105: a diff seed file is one whose type is "diff"
is_diff_seed_file(data) == data \notin {Full, "missing"}

\* len(data["transactions"]) of the diff seed files: two, one and none
TransactionsOf(path) ==
    CASE StemOf(path) = "a" -> 2
      [] StemOf(path) = "b" -> 1
      [] OTHER -> 0

\* Faulty variant: every base_id is resolved as if it were "initial_data".
resolve_base_file_path_AlwaysInitialData(json_path, base_id) ==
    LET folder_name == ParentName(json_path)
    IN  IF folder_name \in DOMAIN APP_INITIAL_DATA_MAPPING
        THEN APP_INITIAL_DATA_MAPPING[folder_name]
        ELSE "unknown_folder"

\* resolve_base_file_path: the path of the base, or "unknown_folder" (ValueError)
resolve_base_file_path(json_path, base_id) ==
    LET folder_name == ParentName(json_path)
    IN  IF base_id = INITIAL_DATA_SPECIAL_ID
        THEN IF folder_name \in DOMAIN APP_INITIAL_DATA_MAPPING
             THEN APP_INITIAL_DATA_MAPPING[folder_name]
             ELSE "unknown_folder"
        ELSE PathOf(folder_name, base_id)

-----------------------------------------------------------------------------
(* Platform calls *)

\* op: the call; sid: the session it addresses (0: none); name: the snapshot
\* it is about; base: the snapshot_name a start request carries
Call(op, sid, name, base) == [op |-> op, sid |-> sid, name |-> name, base |-> base]

\* Calls that change the platform.
Mutations == {"delete", "start", "transaction", "create_index", "create_seed", "stop"}
\* Calls sent over HTTP.
HttpOps == {"start", "status", "transaction", "create_index", "index_status",
            "create_seed", "stop"}

\* Faulty variant: the delete is issued in a dry run too.
delete_snapshot_IgnoringDryRun(l, snapshot_name, dry) ==
    Append(l, Call("delete", 0, snapshot_name, NoName))

\* delete_snapshot: nothing in a dry run, else one kubectl delete
delete_snapshot(l, snapshot_name, dry) ==
    IF dry THEN l ELSE Append(l, Call("delete", 0, snapshot_name, NoName))

-----------------------------------------------------------------------------
(* ensure_snapshot_exists: frames *)

Top == stack[Len(stack)]
SetTop(f) == [stack EXCEPT ![Len(stack)] = f]
At(p) == outcome = "running" /\ stack # <<>> /\ Top.pc = p

NewFrame(path, app_context) ==
    LET ctx == IF app_context # None THEN app_context ELSE ParentName(path)
    IN  [path |-> path, ctx |-> ctx,
         name |-> calculate_snapshot_name(path, ctx),
         pc |-> "enter", base |-> NoName, sid |-> 0,
         session_ended |-> FALSE, exc |-> None]

\* A call returns snapshot_name to its caller: to the call that awaits its
\* base, or to seed_remote's loop over json_files.
ReturnFrom(f) ==
    IF Len(stack) > 1
    THEN /\ stack' = [SubSeq(stack, 1, Len(stack) - 1)
                        EXCEPT ![Len(stack) - 1].base = f.name,
                               ![Len(stack) - 1].pc = "create"]
         /\ UNCHANGED <<fileIdx, outcome>>
    ELSE /\ stack' = <<>>
         /\ fileIdx' = fileIdx + 1
         /\ outcome' = IF fileIdx = Len(json_files) THEN "ok" ELSE outcome

\* An exception leaves every active call (the recursive call sits outside the
\* callers' try blocks) and ends the invocation.
RaiseOut(kind) ==
    /\ stack' = <<>>
    /\ outcome' = kind
    /\ UNCHANGED fileIdx


-----------------------------------------------------------------------------
(* ensure_snapshot_exists: the steps of one call *)

\* line 801: the circular dependency check
InVisited(path) == path \in visited

\* Faulty variant: the overwrite flag is read the wrong way round.
SkipExisting_FlagInverted(exists) == exists /\ overwrite

\* line 830: an existing snapshot is kept
SkipExisting(exists) == exists /\ ~overwrite

\* Faulty variant: the finally block does not look at session_ended.
NeedsStop_IgnoringSessionEnded(f) == f.sid # 0 /\ ~fire_and_forget

\* Faulty variant: the session is stopped only when the call raises.
NeedsStop_OnlyAfterError(f) ==
    f.sid # 0 /\ ~f.session_ended /\ ~fire_and_forget /\ f.exc # None

\* line 960: the condition of the stop in the finally block
NeedsStop(f) == f.sid # 0 /\ ~f.session_ended /\ ~fire_and_forget

\* kubectl get volumesnapshot: the answer agrees with what the run knows
Observe(name, exists) ==
    /\ name \in present => exists
    /\ name \in absent => ~exists
    /\ present' = IF exists THEN present \cup {name} ELSE present
    /\ absent' = IF exists THEN absent ELSE absent \cup {name}

\* Faulty variant: every top-level file gets a processed_snapshots of its own.
SeedRemoteNext_OwnProcessed ==
    /\ outcome = "running" /\ stack = <<>> /\ fileIdx <= Len(json_files)
    /\ stack' = <<NewFrame(json_files[fileIdx], None)>>
    /\ visited' = {}
    /\ processed_snapshots' = {}
    /\ UNCHANGED <<inputVars, invocation, fileIdx, outcome,
                   firstOutcome, present, absent, nextSid, log, fr, ix,
                   unitVars>>

\* seed_remote, lines 1047-1064: the next top-level file, with a fresh visited
SeedRemoteNext ==
    /\ outcome = "running" /\ stack = <<>> /\ fileIdx <= Len(json_files)
    /\ stack' = <<NewFrame(json_files[fileIdx], None)>>
    /\ visited' = {}
    /\ UNCHANGED <<inputVars, invocation, fileIdx, processed_snapshots, outcome,
                   firstOutcome, present, absent, nextSid, log, fr, ix,
                   unitVars>>

\* lines 794-834
Enter ==
    /\ At("enter")
    /\ LET f == Top IN
       IF InVisited(f.path)
       THEN /\ RaiseOut("circular")
            /\ UNCHANGED <<visited, processed_snapshots, present, absent>>
       ELSE \E exists \in BOOLEAN :
            /\ Observe(f.name, exists)
            /\ IF f.name \in processed_snapshots
               THEN /\ visited' = visited \ {f.path}
                    /\ ReturnFrom(f)
                    /\ UNCHANGED processed_snapshots
               ELSE IF SkipExisting(exists)
               THEN /\ processed_snapshots' = processed_snapshots \cup {f.name}
                    /\ visited' = visited \ {f.path}
                    /\ ReturnFrom(f)
               ELSE /\ visited' = visited \cup {f.path}
                    /\ stack' = SetTop([f EXCEPT !.pc =
                                  IF exists /\ overwrite THEN "delete" ELSE "load"])
                    /\ UNCHANGED <<processed_snapshots, fileIdx, outcome>>
    /\ UNCHANGED <<inputVars, invocation, firstOutcome, nextSid, log, fr, ix,
                   unitVars>>

\* lines 836-838: kubectl delete volumesnapshot (check=True)
DeletePrimary ==
    /\ At("delete")
    /\ LET f == Top IN
       /\ log' = delete_snapshot(log, f.name, dry_run)
       /\ \/ /\ present' = IF dry_run THEN present ELSE present \ {f.name}
             /\ absent' = IF dry_run THEN absent ELSE absent \cup {f.name}
             /\ stack' = SetTop([f EXCEPT !.pc = "delete_meili"])
             /\ UNCHANGED <<fileIdx, outcome>>
          \/ /\ ~dry_run
             /\ RaiseOut("platform")
             /\ UNCHANGED <<present, absent>>
    /\ UNCHANGED <<inputVars, invocation, visited, processed_snapshots,
                   firstOutcome, nextSid, fr, ix,
                   unitVars>>

\* Faulty variant: the secondary is looked up and left in place.
DeleteMeili_LeftInPlace ==
    /\ At("delete_meili")
    /\ LET f == Top
           m == MeiliName(f.name)
       IN  \E exists \in BOOLEAN :
           /\ Observe(m, exists)
           /\ stack' = SetTop([f EXCEPT !.pc = "load"])
           /\ UNCHANGED <<log, fileIdx, outcome>>
    /\ UNCHANGED <<inputVars, invocation, visited, processed_snapshots,
                   firstOutcome, nextSid, fr, ix,
                   unitVars>>

\* lines 840-850: the meilisearch- secondary
DeleteMeili ==
    /\ At("delete_meili")
    /\ LET f == Top
           m == MeiliName(f.name)
       IN  \E exists \in BOOLEAN :
           /\ m \in present => exists
           /\ m \in absent => ~exists
           /\ IF exists
              THEN /\ log' = delete_snapshot(log, m, dry_run)
                   /\ \/ /\ present' = IF dry_run THEN present \cup {m} ELSE present \ {m}
                         /\ absent' = IF dry_run THEN absent ELSE absent \cup {m}
                         /\ stack' = SetTop([f EXCEPT !.pc = "load"])
                         /\ UNCHANGED <<fileIdx, outcome>>
                      \/ /\ ~dry_run
                         /\ RaiseOut("platform")
                         /\ present' = present \cup {m}
                         /\ UNCHANGED absent
              ELSE /\ Observe(m, FALSE)
                   /\ stack' = SetTop([f EXCEPT !.pc = "load"])
                   /\ UNCHANGED <<log, fileIdx, outcome>>
    /\ UNCHANGED <<inputVars, invocation, visited, processed_snapshots,
                   firstOutcome, nextSid, fr, ix,
                   unitVars>>

\* lines 852-876: load the seed file; a diff file resolves its base first
Load ==
    /\ At("load")
    /\ LET f == Top
           data == FileContent(f.path)
           base_file_path == resolve_base_file_path(f.path, data)
       IN  IF data = "missing"
           THEN RaiseOut("missing_file")
           ELSE IF ~is_diff_seed_file(data)
           THEN /\ stack' = SetTop([f EXCEPT !.pc = "create"])
                /\ UNCHANGED <<fileIdx, outcome>>
           ELSE IF base_file_path = "unknown_folder"
           THEN RaiseOut("unknown_folder")
           ELSE /\ stack' = Append(SetTop([f EXCEPT !.pc = "await_base"]),
                                   NewFrame(base_file_path, f.ctx))
                /\ UNCHANGED <<fileIdx, outcome>>
    /\ UNCHANGED <<inputVars, invocation, visited, processed_snapshots,
                   firstOutcome, present, absent, nextSid, log, fr, ix,
                   unitVars>>

\* lines 881-894
DryRunReturn ==
    /\ At("create") /\ dry_run
    /\ processed_snapshots' = processed_snapshots \cup {Top.name}
    /\ visited' = visited \ {Top.path}
    /\ ReturnFrom(Top)
    /\ UNCHANGED <<inputVars, invocation, firstOutcome, present, absent,
                   nextSid, log, fr, ix,
                   unitVars>>

\* lines 899-908: snapshot_is_ready / wait_for_snapshot_ready of the base
BaseReady ==
    /\ At("create") /\ ~dry_run
    /\ \/ /\ stack' = SetTop([Top EXCEPT !.pc = "start"])
          /\ UNCHANGED <<fileIdx, outcome>>
       \/ /\ Top.base # NoName
          /\ RaiseOut("platform")
    /\ UNCHANGED <<inputVars, invocation, visited, processed_snapshots,
                   firstOutcome, present, absent, nextSid, log, fr, ix,
                   unitVars>>

\* a step of the try block: it goes on at pc next or raises into the finally
Step(f, next, ok) ==
    stack' = SetTop(IF ok THEN [f EXCEPT !.pc = next]
                    ELSE [f EXCEPT !.pc = "finally", !.exc = "platform"])

\* line 915: start_session
StartSession ==
    /\ At("start")
    /\ \E ok \in BOOLEAN :
       /\ log' = Append(log, Call("start", IF ok THEN nextSid ELSE 0, Top.name, Top.base))
       /\ nextSid' = IF ok THEN nextSid + 1 ELSE nextSid
       /\ Step([Top EXCEPT !.sid = IF ok THEN nextSid ELSE 0], "poll_running", ok)
    /\ UNCHANGED <<inputVars, invocation, fileIdx, visited, processed_snapshots,
                   outcome, firstOutcome, present, absent, fr, ix,
                   unitVars>>

\* line 918: poll_until_running
PollRunning ==
    /\ At("poll_running")
    /\ log' = Append(log, Call("status", Top.sid, Top.name, NoName))
    /\ \E ok \in BOOLEAN : Step(Top, "seed", ok)
    /\ UNCHANGED <<inputVars, invocation, fileIdx, visited, processed_snapshots,
                   outcome, firstOutcome, present, absent, nextSid, fr, ix,
                   unitVars>>

\* Faulty variant: a diff seed goes on to index creation like a full seed.
AfterData_AlwaysIndices(data) == "indices"

\* lines 921-934: after the data, a diff seed skips index creation
AfterData(data) == IF is_diff_seed_file(data) THEN "create_seed" ELSE "indices"

\* lines 420-421: send_transaction calls, one after the other; sent of them
\* were made
TransactionCalls(f, sent) ==
    [i \in 1..sent |-> Call("transaction", f.sid, f.name, NoName)]

\* lines 921-930: apply_transactions of a diff seed (every call succeeds, or
\* one fails and ends the loop), seed_full_data of a full one (taken as one
\* call here; SpecSession has its batches)
ApplyData ==
    /\ At("seed")
    /\ LET data == FileContent(Top.path)
           total == TransactionsOf(Top.path)
       IN  IF is_diff_seed_file(data)
           THEN \/ /\ log' = log \o TransactionCalls(Top, total)
                   /\ Step(Top, AfterData(data), TRUE)
                \/ \E failing \in 1..total :
                      /\ log' = log \o TransactionCalls(Top, failing)
                      /\ Step(Top, AfterData(data), FALSE)
           ELSE /\ log' = Append(log, Call("transaction", Top.sid, Top.name, NoName))
                /\ \E ok \in BOOLEAN : Step(Top, AfterData(data), ok)
    /\ UNCHANGED <<inputVars, invocation, fileIdx, visited, processed_snapshots,
                   outcome, firstOutcome, present, absent, nextSid, fr, ix,
                   unitVars>>

\* line 934, lines 493-543: create_meilisearch_indices of a full seed. An app
\* without indices mapping is skipped; a mapped app has its indices file.
CreateIndices ==
    /\ At("indices")
    /\ IF Top.ctx \notin APP_INDICES_MAPPING
       THEN /\ Step(Top, "create_seed", TRUE)
            /\ UNCHANGED log
       ELSE \/ \* create-search-index fails
               /\ log' = Append(log, Call("create_index", Top.sid, Top.name, NoName))
               /\ Step(Top, "create_seed", FALSE)
            \/ \* create-search-index succeeds, then poll_index_creation_status
               /\ log' = log \o <<Call("create_index", Top.sid, Top.name, NoName),
                                  Call("index_status", Top.sid, Top.name, NoName)>>
               /\ \E ok \in BOOLEAN : Step(Top, "create_seed", ok)
    /\ UNCHANGED <<inputVars, invocation, fileIdx, visited, processed_snapshots,
                   outcome, firstOutcome, present, absent, nextSid, fr, ix,
                   unitVars>>

\* What the run knows about a snapshot after a create-seed request for it
\* whose effect it has not observed: nothing.
Forget(names) ==
    /\ present' = present \ names
    /\ absent' = absent \ names

\* lines 937-941, 678-699: the request is handed to a background task
CreateSeedFireAndForget ==
    /\ At("create_seed") /\ fire_and_forget
    /\ log' = Append(log, Call("create_seed", Top.sid, Top.name, NoName))
    /\ Forget({Top.name, MeiliName(Top.name)})
    /\ stack' = SetTop([Top EXCEPT !.pc = "finish"])
    /\ UNCHANGED <<inputVars, invocation, fileIdx, visited, processed_snapshots,
                   outcome, firstOutcome, nextSid, fr, ix,
                   unitVars>>

\* lines 943-945, 620-639, 675: create_seed and the response it gets
CreateSeed ==
    /\ At("create_seed") /\ ~fire_and_forget
    /\ log' = Append(log, Call("create_seed", Top.sid, Top.name, NoName))
    /\ \/ \* success: the platform has created the volume snapshot
          /\ present' = (present \cup {Top.name}) \ {MeiliName(Top.name)}
          /\ absent' = absent \ {Top.name, MeiliName(Top.name)}
          /\ Step(Top, "poll_locked", TRUE)
       \/ \* HTTP 400 with "running sessions" in the body
          /\ Forget({Top.name, MeiliName(Top.name)})
          /\ Step(Top, "recover_poll", TRUE)
       \/ \* any other non-success response, or an exception
          /\ Forget({Top.name, MeiliName(Top.name)})
          /\ Step(Top, "poll_locked", FALSE)
    /\ UNCHANGED <<inputVars, invocation, fileIdx, visited, processed_snapshots,
                   outcome, firstOutcome, nextSid, fr, ix,
                   unitVars>>

\* lines 643, 670-673: poll_for_snapshot_creation
RecoverPoll ==
    /\ At("recover_poll")
    /\ \E found \in BOOLEAN :
       /\ Observe(Top.name, found)
       /\ Step(Top, "recover_meili", found)
    /\ UNCHANGED <<inputVars, invocation, fileIdx, visited, processed_snapshots,
                   outcome, firstOutcome, nextSid, log, fr, ix,
                   unitVars>>

\* lines 646-657: poll_for_meilisearch_snapshot_creation, a warning if absent
RecoverMeili ==
    /\ At("recover_meili")
    /\ Step(Top, "recover_locked", TRUE)
    /\ UNCHANGED <<inputVars, invocation, fileIdx, visited, processed_snapshots,
                   outcome, firstOutcome, present, absent, nextSid, log, fr, ix,
                   unitVars>>

\* line 660: poll_until_not_locked inside create_seed
RecoverLocked ==
    /\ At("recover_locked")
    /\ log' = Append(log, Call("status", Top.sid, Top.name, NoName))
    /\ \E ok \in BOOLEAN : Step(Top, "recover_stop", ok)
    /\ UNCHANGED <<inputVars, invocation, fileIdx, visited, processed_snapshots,
                   outcome, firstOutcome, present, absent, nextSid, fr, ix,
                   unitVars>>

\* Faulty variant: the recovery path reports the session as still open.
session_already_ended_Never(recovered) == FALSE

\* lines 634, 669: the second component of what create_seed returns
session_already_ended(recovered) == recovered

\* lines 662-669: end_session inside create_seed (a failure is only logged);
\* create_seed returns session_already_ended = True
RecoverStop ==
    /\ At("recover_stop")
    /\ log' = Append(log, Call("stop", Top.sid, Top.name, NoName))
    /\ Step([Top EXCEPT !.session_ended = session_already_ended(TRUE)], "finish", TRUE)
    /\ UNCHANGED <<inputVars, invocation, fileIdx, visited, processed_snapshots,
                   outcome, firstOutcome, present, absent, nextSid, fr, ix,
                   unitVars>>

\* lines 949-951: poll_until_not_locked after a successful create_seed
PollLocked ==
    /\ At("poll_locked")
    /\ log' = Append(log, Call("status", Top.sid, Top.name, NoName))
    /\ \E ok \in BOOLEAN : Step(Top, "finish", ok)
    /\ UNCHANGED <<inputVars, invocation, fileIdx, visited, processed_snapshots,
                   outcome, firstOutcome, present, absent, nextSid, fr, ix,
                   unitVars>>

\* Faulty variant: the path stays in visited when the call returns.
Finish_KeepsVisited ==
    /\ At("finish")
    /\ processed_snapshots' = processed_snapshots \cup {Top.name}
    /\ Step(Top, "finally", TRUE)
    /\ UNCHANGED <<inputVars, invocation, fileIdx, visited, outcome, firstOutcome,
                   present, absent, nextSid, log, fr, ix,
                   unitVars>>

\* lines 953-957: mark as processed, leave the recursion chain, return
Finish ==
    /\ At("finish")
    /\ processed_snapshots' = processed_snapshots \cup {Top.name}
    /\ visited' = visited \ {Top.path}
    /\ Step(Top, "finally", TRUE)
    /\ UNCHANGED <<inputVars, invocation, fileIdx, outcome, firstOutcome,
                   present, absent, nextSid, log, fr, ix,
                   unitVars>>

\* lines 959-965: the finally block (a failure of end_session is only logged),
\* then the return or the pending exception
Finally ==
    /\ At("finally")
    /\ log' = IF NeedsStop(Top) THEN Append(log, Call("stop", Top.sid, Top.name, NoName)) ELSE log
    /\ IF Top.exc = None THEN ReturnFrom(Top) ELSE RaiseOut(Top.exc)
    /\ UNCHANGED <<inputVars, invocation, visited, processed_snapshots,
                   firstOutcome, present, absent, nextSid, fr, ix,
                   unitVars>>

\* A second invocation on the same platform: with identical arguments after
\* a normal return, or the real run after a dry run. visited and
\* processed_snapshots are new sets (lines 794-797, 1043, 1060).
Reinvoke ==
    /\ invocation = "first" /\ outcome # "running" /\ Len(json_files) = 1
    /\ \/ outcome = "ok" /\ dry_run' = dry_run /\ invocation' = "same_args"
       \/ dry_run /\ dry_run' = FALSE /\ invocation' = "after_dry_run"
    /\ firstOutcome' = outcome
    /\ outcome' = "running"
    /\ fileIdx' = 1
    /\ stack' = <<>>
    /\ visited' = {}
    /\ processed_snapshots' = {}
    /\ log' = <<>>
    /\ UNCHANGED <<tree, folder, json_files, overwrite, fire_and_forget,
                   present, absent, nextSid, fr, ix,
                   unitVars>>

-----------------------------------------------------------------------------
(* fetch_with_retry, lines 220-273 *)

MaxRetries == 3                   \* largest max_retries the model tries
DefaultMaxRetries == 3
DefaultBaseDelayMs == 1000
DefaultMaxDelayMs == 10000
CreateSeedBaseDelayMs == 2000
CreateSeedMaxDelayMs == 15000
TightMaxDelayMs == 3000           \* a caller's max_delay_ms that the backoff reaches

\* What the transport gives for one attempt: a status code, or an exception.
Exc == 0
Statuses == {200, 204, 302, 400, 404, 409, 429, 500, 503, 599, 600}
Answers == Statuses \cup {Exc}

is_success(status) == 200 <= status /\ status <= 299

\* Faulty variant: every client error is retried as well.
should_retry_From400(status) == status >= 400

\* line 243
should_retry(status) == status >= 500 \/ status = 429

RECURSIVE Pow2(_)
Pow2(n) == IF n <= 0 THEN 1 ELSE 2 * Pow2(n - 1)
Min(x, y) == IF x <= y THEN x ELSE y

\* Faulty variant: the backoff is not capped by max_delay_ms.
Delay_Uncapped(opts, attempt) == opts.base_delay_ms * Pow2(attempt)

\* lines 249, 262
Delay(opts, attempt) == Min(opts.base_delay_ms * Pow2(attempt), opts.max_delay_ms)

RetryOptions ==
    {[max_retries |-> m, base_delay_ms |-> DefaultBaseDelayMs,
      max_delay_ms |-> mx] : m \in (0 - 1)..MaxRetries,
                             mx \in {DefaultMaxDelayMs, TightMaxDelayMs}}
    \cup {[max_retries |-> DefaultMaxRetries, base_delay_ms |-> CreateSeedBaseDelayMs,
           max_delay_ms |-> CreateSeedMaxDelayMs]}

FrIdle == [pc |-> "idle"]

FrStart(opts) ==
    [pc |-> "loop", opts |-> opts, attempt |-> 0,
     answers |-> <<>>,            \* what the transport gave, attempt by attempt
     delays |-> <<>>,             \* the delays slept, in ms
     last_response |-> Exc,       \* status of the last retried response, if any
     last_error |-> FALSE,        \* has an attempt raised
     result |-> Exc]              \* the status returned (pc = "returned")

\* Faulty variant: the last attempt is taken to be attempt max_retries - 1.
GiveUp_OneAttemptEarly(status, attempt, max_retries) ==
    ~should_retry(status) \/ attempt + 1 = max_retries

\* line 245: a non-success response is returned as it is
GiveUp(status, attempt, max_retries) ==
    ~should_retry(status) \/ attempt = max_retries

\* One iteration of the loop of lines 236-267: the request, and the backoff
\* sleep when another attempt follows.
FetchAttempt ==
    /\ fr.pc = "loop"
    /\ fr.attempt <= fr.opts.max_retries
    /\ \E ans \in Answers :
       LET issued == [fr EXCEPT !.answers = Append(@, ans)]
           again == [issued EXCEPT !.attempt = @ + 1,
                                   !.delays = Append(@, Delay(fr.opts, fr.attempt))]
       IN  fr' = IF ans = Exc
                 THEN IF fr.attempt = fr.opts.max_retries
                      THEN [issued EXCEPT !.pc = "raised", !.last_error = TRUE]
                      ELSE [again EXCEPT !.last_error = TRUE]
                 ELSE IF is_success(ans)
                      THEN [issued EXCEPT !.pc = "returned", !.result = ans]
                 ELSE IF GiveUp(ans, fr.attempt, fr.opts.max_retries)
                      THEN [issued EXCEPT !.pc = "returned", !.result = ans]
                      ELSE [again EXCEPT !.last_response = ans]
    /\ UNCHANGED <<inputVars, resolverVars, ix, unitVars>>

\* lines 269-273: after the loop
FetchAfterLoop ==
    /\ fr.pc = "loop"
    /\ fr.attempt > fr.opts.max_retries
    /\ fr' = IF fr.last_response # Exc
             THEN [fr EXCEPT !.pc = "returned", !.result = fr.last_response]
             ELSE [fr EXCEPT !.pc = "raised"]
    /\ UNCHANGED <<inputVars, resolverVars, ix, unitVars>>

-----------------------------------------------------------------------------
(* poll_index_creation_status, lines 427-490 *)

IndexTimeoutSeconds == 600
IndexPollInterval == 5

IndexStates == {"in_progress", "pending", "completed", "failed"}
\* What one GET search-index-status gives: an exception of fetch_with_retry,
\* a non-success response, or the set of states the listed indexes are in.
IndexAnswer(kind, states) == [kind |-> kind, states |-> states]
IndexAnswers ==
    {IndexAnswer("exception", {}), IndexAnswer("non_success", {})}
    \cup {IndexAnswer("indexes", states) : states \in SUBSET IndexStates}

IxIdle == [pc |-> "idle"]
IxStart == [pc |-> "poll", elapsed |-> 0, polls |-> 0, last |-> IndexAnswer("none", {})]

\* lines 472-478, inside the try block: "return", "raise" (RuntimeError naming
\* the failed collections) or "wait"
IndexVerdict(states) ==
    IF "in_progress" \notin states /\ "pending" \notin states
    THEN IF "failed" \in states THEN "raise" ELSE "return"
    ELSE "wait"

\* lines 483-486: except Exception around the whole loop body, which also
\* catches the RuntimeError raised at line 475: warn, sleep, poll again
CaughtByExcept(verdict) == verdict = "raise"

PollIndex ==
    /\ ix.pc = "poll"
    /\ ix.elapsed < IndexTimeoutSeconds
    /\ \E ans \in IndexAnswers :
       LET polled == [ix EXCEPT !.polls = @ + 1, !.last = ans]
           slept == [polled EXCEPT !.elapsed = @ + IndexPollInterval]
           verdict == IndexVerdict(ans.states)
       IN  ix' = IF ans.kind \in {"exception", "non_success"}
                 THEN slept
                 ELSE CASE verdict = "return" -> [polled EXCEPT !.pc = "returned"]
                        [] verdict = "wait" -> slept
                        [] OTHER -> IF CaughtByExcept(verdict)
                                    THEN slept
                                    ELSE [polled EXCEPT !.pc = "raised_failed"]
    /\ UNCHANGED <<inputVars, resolverVars, fr, unitVars>>

\* lines 488-490
IndexTimeout ==
    /\ ix.pc = "poll"
    /\ ix.elapsed >= IndexTimeoutSeconds
    /\ ix' = [ix EXCEPT !.pc = "raised_timeout"]
    /\ UNCHANGED <<inputVars, resolverVars, fr, unitVars>>

-----------------------------------------------------------------------------
(* seed_full_data, lines 552-586: the mutations and batches it builds *)

MaxDocs == 23                     \* most documents of a collection
DocumentChunkSize == 5            \* documents per insert mutation
MutationBatchSize == 5            \* mutations per batch call
ParallelBatches == 20             \* batch calls awaited together

\* Faulty variant: a last chunk that is not full is dropped.
chunk_array_DropsRemainder(array, size) ==
    [k \in 1..(Len(array) \div size) |->
        SubSeq(array, (k - 1) * size + 1, k * size)]

\* chunk_array, lines 98-100: array[i : i + size] for i in range(0, len, size)
chunk_array(array, size) ==
    [k \in 1..((Len(array) + size - 1) \div size) |->
        SubSeq(array, (k - 1) * size + 1, Min(k * size, Len(array)))]

\* the values of a seed document: a list of documents (numbered here), or
\* something that is no list
Documents(n) == [list |-> TRUE, docs |-> [i \in 1..n |-> i]]
NoList == [list |-> FALSE, docs |-> <<>>]
Entry(key, value) == [key |-> key, value |-> value]

\* seed documents: data.items() in the order of the file
SeedDocuments ==
    {<<Entry("type", NoList), Entry("users", Documents(n))>> : n \in 0..MaxDocs}
    \cup {<<Entry("users", Documents(n)), Entry("type", NoList), Entry("posts", v)>> :
             n \in 0..MaxDocs, v \in {Documents(0), Documents(7), NoList}}
    \cup {<<Entry("posts", Documents(n)), Entry("users", Documents(2))>> :
             n \in 0..MaxDocs}

DeleteMutation(collection) ==
    [type |-> "delete", collection |-> collection, deletes |-> <<[query |-> {}]>>]
InsertMutation(collection, document_chunk) ==
    [type |-> "insert", collection |-> collection, documents |-> document_chunk]

PlStart(data) ==
    [pc |-> "items", data |-> data, item |-> 1,
     delete_mutations |-> <<>>, insert_mutations |-> <<>>,
     delete_batches |-> <<>>, insert_batches |-> <<>>, parallel_chunks |-> <<>>]

\* lines 555-572: one pass of the loop over data.items()
PlanCollection ==
    /\ pl.pc = "items"
    /\ pl.item <= Len(pl.data)
    /\ LET collection == pl.data[pl.item].key
           documents == pl.data[pl.item].value
           document_chunks == chunk_array(documents.docs, DocumentChunkSize)
       IN  pl' = IF collection = "type"
                 THEN [pl EXCEPT !.item = @ + 1]
                 ELSE [pl EXCEPT
                         !.item = @ + 1,
                         !.delete_mutations = Append(@, DeleteMutation(collection)),
                         !.insert_mutations =
                             IF documents.list /\ Len(documents.docs) > 0
                             THEN @ \o [k \in DOMAIN document_chunks |->
                                          InsertMutation(collection, document_chunks[k])]
                             ELSE @]
    /\ UNCHANGED <<inputVars, resolverVars, fr, ix, sd, cli, nm, lp>>

\* lines 574, 585-586: the batches of the calls
PlanBatches ==
    /\ pl.pc = "items"
    /\ pl.item > Len(pl.data)
    /\ LET insert_batches == chunk_array(pl.insert_mutations, MutationBatchSize)
       IN  pl' = [pl EXCEPT
                    !.pc = "planned",
                    !.delete_batches = chunk_array(pl.delete_mutations, MutationBatchSize),
                    !.insert_batches = insert_batches,
                    !.parallel_chunks = chunk_array(insert_batches, ParallelBatches)]
    /\ UNCHANGED <<inputVars, resolverVars, fr, ix, sd, cli, nm, lp>>

-----------------------------------------------------------------------------
(* seed_remote up to and including its loop, lines 990-1072, on a small
   file system; ensure_snapshot_exists is one step here *)

\* Path.suffix
Suffix(filename) ==
    CASE filename \in {"a.json", "b.json", "initial_data.json"} -> ".json"
      [] filename = "A.JSON" -> ".JSON"
      [] filename = "notes.txt" -> ".txt"
      [] OTHER -> ""
\* str.lower
Lower(str) == IF str = ".JSON" THEN ".json" ELSE str

\* what a directory may hold, in sorted order
DirEntries == <<"a.json", "b.json", "notes.txt">>
Range(seq) == {seq[i] : i \in DOMAIN seq}
IsJsonEntry(filename) == Suffix(filename) = ".json"

\* args.path: a file, a directory with some entries, or nothing at that place
CliFiles == {<<"jd", "a.json">>, <<"jd", "A.JSON">>, <<"jd", "notes.txt">>,
             <<"jd", "app", "initial_data.json">>, <<"initial_data.json">>}
CliTargets ==
    {[kind |-> "file", path |-> f, entries |-> {}] : f \in CliFiles}
    \cup {[kind |-> "dir", path |-> <<"jd">>, entries |-> e] : e \in SUBSET Range(DirEntries)}
    \cup {[kind |-> "none", path |-> <<"nowhere">>, entries |-> {}]}
CliNames == {None, "", "snap"}

CliStart(target, name, dry, key) ==
    [pc |-> "api_key", target |-> target, name |-> name, dry_run |-> dry,
     api_key |-> key, json_files |-> <<>>, app_context |-> None, next |-> 1,
     error |-> None,
     activity |-> <<>>]           \* kubectx and ensure_snapshot_exists calls made

CliRaise(error) == [cli EXCEPT !.pc = "raised", !.error = error]

\* collect_json_files, lines 968-987: the files, or the ValueError raised
Collected(files) == [error |-> None, files |-> files]
CollectError(error) == [error |-> error, files |-> <<>>]
collect_json_files(target) ==
    IF target.kind = "file"
    THEN IF Lower(Suffix(target.path[Len(target.path)])) # ".json"
         THEN CollectError("not_json")
         ELSE Collected(<<target.path>>)
    ELSE IF target.kind = "dir"
    THEN LET globbed == SelectSeq(DirEntries,
                                  LAMBDA f : f \in target.entries /\ IsJsonEntry(f))
         IN  IF globbed = <<>> THEN CollectError("no_json_files")
             ELSE Collected([i \in DOMAIN globbed |-> target.path \o <<globbed[i]>>])
    ELSE CollectError("no_path")

\* line 1012
NameRejected(snapshot_name_override, files) ==
    snapshot_name_override \notin {None, ""} /\ Len(files) > 1

\* lines 998-1006
CliApiKey ==
    /\ cli.pc = "api_key"
    /\ cli' = IF cli.api_key THEN [cli EXCEPT !.pc = "collect"] ELSE CliRaise("no_api_key")
    /\ UNCHANGED <<inputVars, resolverVars, fr, ix, sd, pl, nm, lp>>

\* line 1009
CliCollect ==
    /\ cli.pc = "collect"
    /\ LET found == collect_json_files(cli.target)
       IN  cli' = IF found.error # None
                  THEN CliRaise(found.error)
                  ELSE [cli EXCEPT !.pc = "validate", !.json_files = found.files]
    /\ UNCHANGED <<inputVars, resolverVars, fr, ix, sd, pl, nm, lp>>

\* lines 1011-1015
CliValidateName ==
    /\ cli.pc = "validate"
    /\ cli' = IF NameRejected(cli.name, cli.json_files)
              THEN CliRaise("name_with_many_files")
              ELSE [cli EXCEPT !.pc = "kube_context"]
    /\ UNCHANGED <<inputVars, resolverVars, fr, ix, sd, pl, nm, lp>>

\* lines 1030-1034: kubectx (check=True), not in a dry run
CliKubeContext ==
    /\ cli.pc = "kube_context"
    /\ IF cli.dry_run
       THEN cli' = [cli EXCEPT !.pc = "app_context"]
       ELSE \E ok \in BOOLEAN :
              cli' = [(IF ok THEN [cli EXCEPT !.pc = "app_context"] ELSE CliRaise("kubectx"))
                        EXCEPT !.activity = Append(@, <<"kubectx">>)]
    /\ UNCHANGED <<inputVars, resolverVars, fr, ix, sd, pl, nm, lp>>

\* lines 1036-1040: path.split("/")[-3] of a path ending in initial_data.json
CliAppContext ==
    /\ cli.pc = "app_context"
    /\ LET path == cli.target.path
       IN  cli' = IF path[Len(path)] = "initial_data.json"
                  THEN IF Len(path) >= 3
                       THEN [cli EXCEPT !.pc = "loop", !.app_context = path[Len(path) - 2]]
                       ELSE CliRaise("index_error")
                  ELSE [cli EXCEPT !.pc = "loop"]
    /\ UNCHANGED <<inputVars, resolverVars, fr, ix, sd, pl, nm, lp>>

\* lines 1047-1065: one ensure_snapshot_exists call per file, the override
\* handed to each
CliEnsure ==
    /\ cli.pc = "loop"
    /\ LET called == [cli EXCEPT !.activity =
                         Append(@, <<"ensure", cli.json_files[cli.next], cli.name,
                                     cli.app_context>>)]
       IN  \/ cli' = [called EXCEPT !.pc = "raised", !.error = "ensure_snapshot_exists"]
           \/ cli' = [called EXCEPT !.next = @ + 1,
                                    !.pc = IF cli.next = Len(cli.json_files)
                                           THEN "complete" ELSE "loop"]
    /\ UNCHANGED <<inputVars, resolverVars, fr, ix, sd, pl, nm, lp>>

-----------------------------------------------------------------------------
(* calculate_snapshot_name on its own *)

NameFolders == {"jd", "my_app", "weibo"}
NameFiles == {"login_flow.json", "initial_data.json", "x_y_z.json", "seed.v2.json",
              "a.json"}
NamePaths ==
    {<<"initial-backend-data", d, f>> : d \in NameFolders, f \in NameFiles}
    \cup {<<f>> : f \in NameFiles}
NameContexts == {None, "", "jd", "my_app", "x_y_z"}

NmStart(json_path, app_context) ==
    [pc |-> "call", json_path |-> json_path, app_context |-> app_context,
     result |-> NoName, status_result |-> NoName]

\* one call of each copy on the same arguments
CalculateSnapshotName ==
    /\ nm.pc = "call"
    /\ nm' = [nm EXCEPT
                !.pc = "returned",
                !.result = calculate_snapshot_name(nm.json_path, nm.app_context),
                !.status_result =
                    status_calculate_snapshot_name(nm.json_path, nm.app_context)]
    /\ UNCHANGED <<inputVars, resolverVars, fr, ix, sd, pl, cli, lp>>

\* the same arguments again
CalculateAgain ==
    /\ nm.pc = "returned"
    /\ nm' = [nm EXCEPT
                !.pc = "returned_again",
                !.status_result = calculate_snapshot_name(nm.json_path, nm.app_context)]
    /\ UNCHANGED <<inputVars, resolverVars, fr, ix, sd, pl, cli, lp>>

-----------------------------------------------------------------------------
(* One snapshot-creation session: the try block of ensure_snapshot_exists,
   lines 910-965, from the data calls on, with every call of
   send_transaction and send_mutation_batch followed request by request *)

MaxTransactions == 3              \* most transactions of a diff seed

RECURSIVE Sum(_)
Sum(counts) == IF counts = <<>> THEN 0 ELSE Head(counts) + Sum(Tail(counts))

Numbered(n) == [i \in 1..n |-> i]

\* What the session is created from: a diff seed with its transactions, or a
\* full seed with the mutations seed_full_data builds from it.
DiffSeed(n, forget) ==
    [kind |-> "diff", transactions |-> Numbered(n),
     delete_mutations |-> <<>>, insert_mutations |-> <<>>,
     has_indices |-> FALSE, fire_and_forget |-> forget]
FullSeed(deletes, inserts, indices, forget) ==
    [kind |-> "full", transactions |-> <<>>,
     delete_mutations |-> Numbered(deletes), insert_mutations |-> Numbered(inserts),
     has_indices |-> indices, fire_and_forget |-> forget]

SessionSeeds ==
    {DiffSeed(n, forget) : n \in 0..MaxTransactions, forget \in BOOLEAN}
    \cup {FullSeed(m[1], m[2], indices, forget) :
             m \in {<<0, 0>>, <<1, 0>>, <<6, 3>>, <<1, 10>>},
             indices \in BOOLEAN, forget \in BOOLEAN}
    \cup {FullSeed(2, 101, TRUE, forget) : forget \in BOOLEAN}

\* The awaits of the data calls, in program order: each entry is the calls
\* one await starts. apply_transactions (l.420-421) and the delete loop
\* (l.579-580) await one call; the insert loop (l.595-598) awaits the calls
\* of one parallel chunk together.
Awaited(phase, size, first) == [phase |-> phase, size |-> size, first |-> first]

Schedule(seed) ==
    IF seed.kind = "diff"
    THEN [i \in DOMAIN seed.transactions |-> Awaited("transaction", 1, i)]
    ELSE LET delete_batches == chunk_array(seed.delete_mutations, MutationBatchSize)
             insert_batches == chunk_array(seed.insert_mutations, MutationBatchSize)
             parallel_chunks == chunk_array(insert_batches, ParallelBatches)
         IN  [i \in DOMAIN delete_batches |-> Awaited("delete", 1, i)]
             \o [c \in DOMAIN parallel_chunks |->
                   Awaited("insert", Len(parallel_chunks[c]),
                           (c - 1) * ParallelBatches + 1)]

\* the answers a POST {url}/transaction is given in this model
SessionAnswers == {200, 400, 503, Exc}

\* what kubectl prints for {.status.readyToUse}, or "error" for a return
\* code other than 0
ReadyAnswers == {"error", "true", "True", "false", ""}

\* Faulty variant: a kubectl that found the snapshot counts as ready.
snapshot_is_ready_IfFound(answer) == answer # "error"

\* snapshot_is_ready, lines 167-181
snapshot_is_ready(answer) ==
    answer # "error" /\ (IF answer = "True" THEN "true" ELSE answer) = "true"

ReadyTimeoutSeconds == 300        \* wait_for_snapshot_ready, line 904
ReadyPollInterval == 10

\* what a GET {base_url}/{session_id}/status gives: the status of a success
\* response, a non-success response, or the exception of fetch_with_retry
SessionStatuses == {"RUNNING", "QUEUED", "TERMINATED", "FAILED", "LOCKED"}
StatusAnswers == SessionStatuses \cup {"non_success", "exception"}

\* Faulty variant: only the terminal states make the poll give up.
RunningVerdict_LockedReturns(answer) ==
    IF answer \in {"non_success", "exception"} THEN "raise"
    ELSE IF answer \in {"RUNNING", "LOCKED"} THEN "return"
    ELSE IF answer # "QUEUED" THEN "raise"
    ELSE "wait"

\* poll_until_running, lines 357-371, for one status answer
RunningVerdict(answer) ==
    IF answer \in {"non_success", "exception"} THEN "raise"
    ELSE IF answer = "RUNNING" THEN "return"
    ELSE IF answer # "QUEUED" THEN "raise"
    ELSE "wait"

\* What a POST create_seed is answered: a status code or an exception, and
\* whether the body of the response speaks of "running sessions".
SeedAnswer(status, running_sessions) ==
    [status |-> status, running_sessions |-> running_sessions]
CreateSeedAnswers ==
    {SeedAnswer(status, FALSE) : status \in SessionAnswers}
    \cup {SeedAnswer(400, TRUE)}
NoAnswer == SeedAnswer(Exc, FALSE)

SdStart(seed) ==
    [pc |-> "create",
     seed |-> seed,
     ready_answer |-> None,       \* the last answer about the base's readyToUse
     start_requested |-> FALSE,   \* POST {base_url} issued
     session_id |-> None,         \* the session start_session returned
     status |-> None,             \* the last answer poll_until_running got
     schedule |-> Schedule(seed),
     next |-> 1,                  \* the entry of schedule to start next
     \* the calls started so far: in_flight[k + 1] of them have the request
     \* of attempt k in flight, ok returned, failed raised
     in_flight |-> [k \in 1..(DefaultMaxRetries + 1) |-> 0],
     ok |-> 0,
     failed |-> 0,
     sent |-> <<>>,               \* the transaction of each request of a diff seed
     results |-> <<>>,            \* how each call of send_transaction ended
     index |-> "none",            \* create_meilisearch_indices: how it ended
     index_failed |-> FALSE,      \* a status response had the verdict "raise"
     elapsed |-> 0,
     seed_requested |-> FALSE,    \* POST create_seed issued
     seed_requests |-> 0,         \* how many times
     seed_answer |-> NoAnswer,    \* the last answer to it
     forgotten |-> "none",        \* the task of create_seed_fire_and_forget
     lock_status |-> None,        \* the last answer poll_until_not_locked got
     processed |-> FALSE,         \* line 954: the name is in processed_snapshots
     stop_requested |-> FALSE,    \* end_session called
     session_ended |-> FALSE,
     error |-> FALSE]             \* ensure_snapshot_exists raises

InFlight(s) == Sum(s.in_flight)
Started(s) == InFlight(s) + s.ok + s.failed

\* Faulty variant: the await resumes as soon as one of the calls returned.
AwaitReturned_AfterFirstCall(s) == s.failed = 0 /\ (Started(s) = 0 \/ s.ok > 0)

\* the await of lines 421, 580, 596 returns: every call it started returned
AwaitReturned(s) == s.failed = 0 /\ InFlight(s) = 0

\* Faulty variant: a non-success response is not looked at.
TransactionFailed_Never(status) == FALSE

\* lines 387-389 and 406-408: if not response.is_success: raise RuntimeError
TransactionFailed(status) == ~is_success(status)

\* the finally block, lines 959-965, and what follows it
Leave(s, error) ==
    IF s.session_id # None /\ ~s.session_ended /\ ~s.seed.fire_and_forget
    THEN [s EXCEPT !.pc = "stopping", !.stop_requested = TRUE, !.error = error]
    ELSE [s EXCEPT !.pc = "exited", !.error = error]

SessionUnchanged ==
    UNCHANGED <<inputVars, resolverVars, fr, ix, pl, cli, nm, lp>>

\* lines 899-901: a diff seed looks at its base snapshot first
SessionBaseReady ==
    /\ sd.pc = "create"
    /\ IF sd.seed.kind # "diff"
       THEN sd' = [sd EXCEPT !.pc = "start"]
       ELSE \E answer \in ReadyAnswers :
            sd' = IF snapshot_is_ready(answer)
                  THEN [sd EXCEPT !.pc = "start", !.ready_answer = answer]
                  ELSE [sd EXCEPT !.pc = "wait_ready", !.ready_answer = answer]
    /\ SessionUnchanged

\* wait_for_snapshot_ready, lines 196-207, and lines 902-908: a base that is
\* not ready in time makes the call raise, before its try block
SessionWaitReady ==
    /\ sd.pc = "wait_ready"
    /\ IF sd.elapsed < ReadyTimeoutSeconds
       THEN \E answer \in ReadyAnswers :
            sd' = IF snapshot_is_ready(answer)
                  THEN [sd EXCEPT !.pc = "start", !.ready_answer = answer,
                                  !.elapsed = 0]
                  ELSE [sd EXCEPT !.ready_answer = answer,
                                  !.elapsed = @ + ReadyPollInterval]
       ELSE sd' = [sd EXCEPT !.pc = "exited", !.error = TRUE, !.elapsed = 0]
    /\ SessionUnchanged

\* line 915: start_session returns the session id, or raises
SessionStart ==
    /\ sd.pc = "start"
    /\ \E ans \in SessionAnswers :
       LET requested == [sd EXCEPT !.start_requested = TRUE]
       IN  sd' = IF ans # Exc /\ is_success(ans)
                 THEN [requested EXCEPT !.pc = "poll_running",
                                        !.session_id = "session"]
                 ELSE Leave(requested, TRUE)
    /\ SessionUnchanged

\* line 918: poll_until_running, one status request
SessionPollRunning ==
    /\ sd.pc = "poll_running"
    /\ \E answer \in StatusAnswers :
       LET verdict == RunningVerdict(answer)
           polled == [sd EXCEPT !.status = answer]
       IN  sd' = CASE verdict = "return" -> [polled EXCEPT !.pc = "apply"]
                   [] verdict = "raise" -> Leave(polled, TRUE)
                   [] OTHER -> polled
    /\ SessionUnchanged

\* the first request of the calls of the next await
Begin(phase) ==
    /\ sd.pc = "apply"
    /\ AwaitReturned(sd)
    /\ sd.next <= Len(sd.schedule)
    /\ sd.schedule[sd.next].phase = phase
    /\ sd' = [sd EXCEPT
                !.next = @ + 1,
                !.in_flight[1] = @ + sd.schedule[sd.next].size,
                !.sent = IF phase = "transaction"
                         THEN Append(@, sd.schedule[sd.next].first)
                         ELSE @]
    /\ SessionUnchanged

\* apply_transactions, lines 420-421
SendTransaction == Begin("transaction")

\* seed_full_data, lines 579-580
SendDeleteBatch == Begin("delete")

\* seed_full_data, lines 595-598: asyncio.gather over one parallel chunk
GatherInsertBatches == Begin("insert")

\* One call gets the answer to its request: one iteration of the loop of
\* fetch_with_retry under the default options, and the test of the response
\* in send_transaction / send_mutation_batch. The calls of a gather that are
\* still running when one of them has raised are not cancelled; they go on
\* until the process leaves ensure_snapshot_exists.
CallAnswered ==
    /\ sd.pc \in {"apply", "stopping"}
    /\ \E k \in 0..DefaultMaxRetries, ans \in SessionAnswers :
       /\ sd.in_flight[k + 1] > 0
       /\ LET answered == [sd EXCEPT !.in_flight[k + 1] = @ - 1]
              \* send_transaction / send_mutation_batch raises, or returns
              raised == [answered EXCEPT !.failed = @ + 1]
              returned == [answered EXCEPT !.ok = @ + 1]
              again == [answered EXCEPT
                          !.in_flight[k + 2] = @ + 1,
                          !.sent = IF sd.seed.kind = "diff"
                                   THEN Append(@, sd.sent[Len(sd.sent)])
                                   ELSE @]
              ended == IF sd.seed.kind = "diff" THEN Append(sd.results, ans)
                       ELSE sd.results
          IN  sd' = IF ans = Exc
                    THEN IF k = DefaultMaxRetries
                         THEN [raised EXCEPT !.results = ended]
                         ELSE again
                    ELSE IF is_success(ans) \/ GiveUp(ans, k, DefaultMaxRetries)
                         THEN IF TransactionFailed(ans)
                              THEN [raised EXCEPT !.results = ended]
                              ELSE [returned EXCEPT !.results = ended]
                         ELSE again
    /\ SessionUnchanged

\* The exception of a call reaches ensure_snapshot_exists, which runs its
\* finally block.
DataRaises ==
    /\ sd.pc = "apply"
    /\ sd.failed > 0
    /\ sd' = Leave(sd, TRUE)
    /\ SessionUnchanged

\* lines 921-932: the data is applied
DataApplied ==
    /\ sd.pc = "apply"
    /\ AwaitReturned(sd)
    /\ sd.next > Len(sd.schedule)
    /\ sd' = [sd EXCEPT !.pc = IF sd.seed.kind = "diff" THEN "create_seed"
                               ELSE "indices"]
    /\ SessionUnchanged

\* create_meilisearch_indices, lines 493-543: nothing to create, or the POST
\* create-search-index
SessionCreateIndices ==
    /\ sd.pc = "indices"
    /\ \/ /\ ~sd.seed.has_indices
          /\ sd' = [sd EXCEPT !.pc = "create_seed", !.index = "skipped"]
       \/ /\ sd.seed.has_indices
          /\ \E ans \in SessionAnswers :
             sd' = IF ans # Exc /\ is_success(ans)
                   THEN [sd EXCEPT !.pc = "index_poll", !.index = "started"]
                   ELSE Leave([sd EXCEPT !.index = "raised"], TRUE)
    /\ SessionUnchanged

\* poll_index_creation_status, lines 436-486
SessionPollIndex ==
    /\ sd.pc = "index_poll"
    /\ sd.elapsed < IndexTimeoutSeconds
    /\ \E ans \in IndexAnswers :
       LET slept == [sd EXCEPT !.elapsed = @ + IndexPollInterval]
           verdict == IndexVerdict(ans.states)
       IN  sd' = IF ans.kind \in {"exception", "non_success"}
                 THEN slept
                 ELSE CASE verdict = "return" ->
                             [sd EXCEPT !.pc = "create_seed", !.index = "completed",
                                        !.elapsed = 0]
                        [] verdict = "wait" -> slept
                        [] OTHER -> IF CaughtByExcept(verdict)
                                    THEN [slept EXCEPT !.index_failed = TRUE]
                                    ELSE Leave([sd EXCEPT !.index = "raised",
                                                          !.index_failed = TRUE,
                                                          !.elapsed = 0],
                                               TRUE)
    /\ SessionUnchanged

\* lines 488-490
SessionIndexTimeout ==
    /\ sd.pc = "index_poll"
    /\ sd.elapsed >= IndexTimeoutSeconds
    /\ sd' = Leave([sd EXCEPT !.index = "raised", !.elapsed = 0], TRUE)
    /\ SessionUnchanged

\* line 639: the error that may hide a created snapshot
RunningSessionsError(answer) == answer.status = 400 /\ answer.running_sessions

\* create_seed, lines 620-634 and 675: one request of its fetch_with_retry
\* (max_retries 3), and what create_seed does with the response returned
SessionCreateSeed ==
    /\ sd.pc = "create_seed"
    /\ ~sd.seed.fire_and_forget
    /\ \E answer \in CreateSeedAnswers :
       LET attempt == sd.seed_requests
           requested == [sd EXCEPT !.seed_requested = TRUE,
                                   !.seed_requests = @ + 1,
                                   !.seed_answer = answer]
       IN  sd' = IF answer.status = Exc
                 THEN IF attempt = DefaultMaxRetries
                      THEN Leave(requested, TRUE)
                      ELSE requested
                 ELSE IF is_success(answer.status)
                      THEN [requested EXCEPT !.pc = "poll_locked"]
                 ELSE IF GiveUp(answer.status, attempt, DefaultMaxRetries)
                      THEN IF RunningSessionsError(answer)
                           THEN [requested EXCEPT !.pc = "recover_poll"]
                           ELSE Leave(requested, TRUE)
                      ELSE requested
    /\ SessionUnchanged

\* Faulty variant: the response of the request is awaited as in create_seed.
SessionCreateSeedFireAndForget_Awaited ==
    /\ sd.pc = "create_seed"
    /\ sd.seed.fire_and_forget
    /\ \E answer \in CreateSeedAnswers :
       LET requested == [sd EXCEPT !.seed_requested = TRUE,
                                   !.seed_requests = @ + 1,
                                   !.seed_answer = answer]
       IN  sd' = IF is_success(answer.status)
                 THEN [requested EXCEPT !.pc = "poll_locked"]
                 ELSE IF RunningSessionsError(answer)
                      THEN [requested EXCEPT !.pc = "recover_poll"]
                      ELSE Leave(requested, TRUE)
    /\ SessionUnchanged

\* create_seed_fire_and_forget, lines 678-699: client.post as a task of its
\* own; lines 939-942, 953-965: the name is marked as processed and the call
\* returns without a stop request
SessionCreateSeedFireAndForget ==
    /\ sd.pc = "create_seed"
    /\ sd.seed.fire_and_forget
    /\ sd' = Leave([sd EXCEPT !.seed_requested = TRUE,
                              !.seed_requests = @ + 1,
                              !.forgotten = "in_flight",
                              !.processed = TRUE],
                   FALSE)
    /\ SessionUnchanged

\* the task of create_seed_fire_and_forget gets its response, or its
\* exception, which nothing reads
ForgottenAnswered ==
    /\ sd.forgotten = "in_flight"
    /\ \E answer \in CreateSeedAnswers :
       sd' = [sd EXCEPT !.forgotten = "answered", !.seed_answer = answer]
    /\ SessionUnchanged

\* lines 636-657, 670-673: poll_for_snapshot_creation; the poll for the
\* meilisearch- snapshot that follows only prints
SessionRecoverPoll ==
    /\ sd.pc = "recover_poll"
    /\ \E found \in BOOLEAN :
       sd' = IF found THEN [sd EXCEPT !.pc = "recover_locked"]
             ELSE Leave(sd, TRUE)
    /\ SessionUnchanged

LockedTimeoutSeconds == 300       \* poll_until_not_locked, line 309
LockedPollInterval == 10

\* poll_until_not_locked, lines 323-330, for one status answer
LockedVerdict(answer) ==
    IF answer \in {"non_success", "exception"} THEN "raise"
    ELSE IF answer # "LOCKED" THEN "return"
    ELSE "wait"

\* poll_until_not_locked, lines 305-337, called after create_seed (l.951) or
\* inside it on the recovery path (l.660), where end_session follows
\* (l.662-669) and the session counts as ended
SessionPollLocked ==
    /\ sd.pc \in {"poll_locked", "recover_locked"}
    /\ IF sd.elapsed < LockedTimeoutSeconds
       THEN \E answer \in StatusAnswers :
            LET verdict == LockedVerdict(answer)
                polled == [sd EXCEPT !.lock_status = answer]
                left == [polled EXCEPT !.elapsed = 0]
            IN  sd' = CASE verdict = "raise" -> Leave(left, TRUE)
                        [] verdict = "wait" ->
                             [polled EXCEPT !.elapsed = @ + LockedPollInterval]
                        [] OTHER ->
                             IF sd.pc = "poll_locked"
                             THEN Leave([left EXCEPT !.processed = TRUE], FALSE)
                             ELSE [left EXCEPT
                                     !.pc = "stopping",
                                     !.stop_requested = TRUE,
                                     !.session_ended = session_already_ended(TRUE)]
       ELSE sd' = Leave([sd EXCEPT !.elapsed = 0], TRUE)
    /\ SessionUnchanged

\* lines 961-965: end_session returns or raises; either way the function is
\* left. On the recovery path the request is the one of lines 662-667, and
\* lines 669, 953-957 follow it.
StopAnswered ==
    /\ sd.pc = "stopping"
    /\ sd' = [sd EXCEPT !.pc = "exited",
                        !.processed = @ \/ (sd.session_ended /\ ~sd.error)]
    /\ SessionUnchanged

-----------------------------------------------------------------------------
(* The polling loops, one poll at a time *)

CreationTimeoutSeconds == 90      \* poll_for_snapshot_creation, lines 643, 704
CreationPollInterval == 10        \* and its meilisearch twin, lines 647, 728
MaxRunningPolls == 40             \* polls of poll_until_running that are counted

BoundedLoops ==
    {"poll_until_not_locked", "wait_for_snapshot_ready",
     "poll_for_snapshot_creation", "poll_for_meilisearch_snapshot_creation"}

LpStart(loop) ==
    [pc |-> "poll", loop |-> loop, elapsed |-> 0, polls |-> 0,
     last |-> None,               \* the last answer
     result |-> None]             \* "returned", "True", "False" or "raised"

PollsUnchanged == UNCHANGED <<inputVars, resolverVars, fr, ix, sd, pl, cli, nm>>

\* Faulty variant: the sleep is not added to elapsed.
Slept_NotCounted(l, poll_interval) == l

\* await asyncio.sleep(poll_interval); elapsed += poll_interval
Slept(l, poll_interval) == [l EXCEPT !.elapsed = @ + poll_interval]

Ended(l, result) == [l EXCEPT !.pc = "done", !.result = result]

\* poll_until_not_locked, lines 305-337
PollUntilNotLocked ==
    /\ lp.pc = "poll" /\ lp.loop = "poll_until_not_locked"
    /\ IF lp.elapsed < LockedTimeoutSeconds
       THEN \E answer \in StatusAnswers :
            LET polled == [lp EXCEPT !.polls = @ + 1, !.last = answer]
                verdict == LockedVerdict(answer)
            IN  lp' = CASE verdict = "raise" -> Ended(polled, "raised")
                        [] verdict = "return" -> Ended(polled, "returned")
                        [] OTHER -> Slept(polled, LockedPollInterval)
       ELSE lp' = Ended(lp, "raised")
    /\ PollsUnchanged

\* wait_for_snapshot_ready, lines 184-207
WaitForSnapshotReady ==
    /\ lp.pc = "poll" /\ lp.loop = "wait_for_snapshot_ready"
    /\ IF lp.elapsed < ReadyTimeoutSeconds
       THEN \E answer \in ReadyAnswers :
            LET polled == [lp EXCEPT !.polls = @ + 1, !.last = answer]
            IN  lp' = IF snapshot_is_ready(answer)
                      THEN Ended(polled, "True")
                      ELSE Slept(polled, ReadyPollInterval)
       ELSE lp' = Ended(lp, "False")
    /\ PollsUnchanged

\* what snapshot_exists answers, lines 158-164
ExistsAnswers == {"found", "not_found"}

\* poll_for_snapshot_creation, lines 702-723
PollForSnapshotCreation ==
    /\ lp.pc = "poll" /\ lp.loop = "poll_for_snapshot_creation"
    /\ IF lp.elapsed < CreationTimeoutSeconds
       THEN \E answer \in ExistsAnswers :
            LET polled == [lp EXCEPT !.polls = @ + 1, !.last = answer]
            IN  lp' = IF answer = "found"
                      THEN Ended(polled, "True")
                      ELSE Slept(polled, CreationPollInterval)
       ELSE lp' = Ended(lp, "False")
    /\ PollsUnchanged

\* poll_for_meilisearch_snapshot_creation, lines 726-749
PollForMeilisearchSnapshotCreation ==
    /\ lp.pc = "poll" /\ lp.loop = "poll_for_meilisearch_snapshot_creation"
    /\ IF lp.elapsed < CreationTimeoutSeconds
       THEN \E answer \in ExistsAnswers :
            LET polled == [lp EXCEPT !.polls = @ + 1, !.last = answer]
            IN  lp' = IF answer = "found"
                      THEN Ended(polled, "True")
                      ELSE Slept(polled, CreationPollInterval)
       ELSE lp' = Ended(lp, "False")
    /\ PollsUnchanged

\* poll_until_running, lines 340-371: while True, no elapsed. The polls are
\* counted up to MaxRunningPolls; the loop goes on beyond.
PollUntilRunning ==
    /\ lp.pc = "poll" /\ lp.loop = "poll_until_running"
    /\ \E answer \in StatusAnswers :
       LET polled == [lp EXCEPT !.polls = Min(@ + 1, MaxRunningPolls),
                                !.last = answer]
           verdict == RunningVerdict(answer)
       IN  lp' = CASE verdict = "raise" -> Ended(polled, "raised")
                   [] verdict = "return" -> Ended(polled, "returned")
                   [] OTHER -> polled
    /\ PollsUnchanged

-----------------------------------------------------------------------------
(* create_seed, request by request *)

\* lines 620-631 with fetch_with_retry, lines 236-268: a create-seed request
\* of create_seed that is answered 5xx or 429, or that raises, and is sent
\* again; CreateSeed is the last request of the call
CreateSeedRetry ==
    /\ At("create_seed") /\ ~fire_and_forget
    /\ Cardinality({j \in DOMAIN log : log[j].op = "create_seed"
                                       /\ log[j].sid = Top.sid}) < DefaultMaxRetries
    /\ \E answer \in CreateSeedAnswers :
          answer.status = Exc \/ should_retry(answer.status)
    /\ log' = Append(log, Call("create_seed", Top.sid, Top.name, NoName))
    /\ Forget({Top.name, MeiliName(Top.name)})
    /\ UNCHANGED <<inputVars, invocation, fileIdx, stack, visited,
                   processed_snapshots, outcome, firstOutcome, nextSid, fr, ix,
                   unitVars>>

-----------------------------------------------------------------------------
Init ==
    /\ tree \in [Stems -> {Full} \cup BaseIds]
    /\ folder \in Folders
    /\ json_files \in {<<PathOf(folder, "a")>>,
                       <<PathOf(folder, "a"), PathOf(folder, "b"), PathOf(folder, "c")>>}
    /\ overwrite \in BOOLEAN
    /\ dry_run \in BOOLEAN
    /\ fire_and_forget \in BOOLEAN
    /\ invocation = "first"
    /\ fileIdx = 1
    /\ stack = <<>>
    /\ visited = {}
    /\ processed_snapshots = {}
    /\ outcome = "running"
    /\ firstOutcome = None
    /\ present = {}
    /\ absent = {}
    /\ nextSid = 1
    /\ log = <<>>
    /\ fr = FrIdle
    /\ ix = IxIdle
    /\ UnitsIdle

Next ==
    \/ SeedRemoteNext
    \/ Enter
    \/ DeletePrimary
    \/ DeleteMeili
    \/ Load
    \/ DryRunReturn
    \/ BaseReady
    \/ StartSession
    \/ PollRunning
    \/ ApplyData
    \/ CreateIndices
    \/ CreateSeedFireAndForget
    \/ CreateSeed
    \/ RecoverPoll
    \/ RecoverMeili
    \/ RecoverLocked
    \/ RecoverStop
    \/ PollLocked
    \/ Finish
    \/ Finally
    \/ Reinvoke

Spec == Init /\ [][Next]_vars

\* One run of seed_remote over the three files of a directory, with the
\* requests of create_seed one by one.
InitRun ==
    /\ Init
    /\ folder = "jd"
    /\ Len(json_files) = Cardinality(Stems)
    /\ tree["c"] = Full
    /\ tree["a"] \in {Full} \cup Stems
    /\ tree["b"] \in {Full, "c"}

NextRun ==
    \/ SeedRemoteNext
    \/ Enter
    \/ DeletePrimary
    \/ DeleteMeili
    \/ Load
    \/ DryRunReturn
    \/ BaseReady
    \/ StartSession
    \/ PollRunning
    \/ ApplyData
    \/ CreateIndices
    \/ CreateSeedFireAndForget
    \/ CreateSeedRetry
    \/ CreateSeed
    \/ RecoverPoll
    \/ RecoverMeili
    \/ RecoverLocked
    \/ RecoverStop
    \/ PollLocked
    \/ Finish
    \/ Finally

SpecRun == InitRun /\ [][NextRun]_vars

\* The resolver at rest, for the specifications of the leaf functions.
ResolverIdle ==
    /\ tree = [s \in Stems |-> Full]
    /\ folder = "jd"
    /\ json_files = <<>>
    /\ overwrite = FALSE
    /\ dry_run = FALSE
    /\ fire_and_forget = FALSE
    /\ invocation = "first"
    /\ fileIdx = 1
    /\ stack = <<>>
    /\ visited = {}
    /\ processed_snapshots = {}
    /\ outcome = "idle"
    /\ firstOutcome = None
    /\ present = {}
    /\ absent = {}
    /\ nextSid = 1
    /\ log = <<>>

InitFetch ==
    /\ ResolverIdle
    /\ fr \in {FrStart(opts) : opts \in RetryOptions}
    /\ ix = IxIdle
    /\ UnitsIdle

NextFetch == FetchAttempt \/ FetchAfterLoop

SpecFetch == InitFetch /\ [][NextFetch]_vars

InitIndex ==
    /\ ResolverIdle
    /\ fr = FrIdle
    /\ ix = IxStart
    /\ UnitsIdle

NextIndex == PollIndex \/ IndexTimeout

SpecIndex == InitIndex /\ [][NextIndex]_vars

InitSession ==
    /\ ResolverIdle
    /\ fr = FrIdle /\ ix = IxIdle
    /\ pl = NotCalled /\ cli = NotCalled /\ nm = NotCalled /\ lp = NotCalled
    /\ sd \in {SdStart(seed) : seed \in SessionSeeds}

NextSession ==
    \/ SessionBaseReady
    \/ SessionWaitReady
    \/ SessionStart
    \/ SessionPollRunning
    \/ SendTransaction
    \/ SendDeleteBatch
    \/ GatherInsertBatches
    \/ CallAnswered
    \/ DataRaises
    \/ DataApplied
    \/ SessionCreateIndices
    \/ SessionPollIndex
    \/ SessionIndexTimeout
    \/ SessionCreateSeed
    \/ SessionCreateSeedFireAndForget
    \/ ForgottenAnswered
    \/ SessionRecoverPoll
    \/ SessionPollLocked
    \/ StopAnswered

SpecSession == InitSession /\ [][NextSession]_vars

InitPlan ==
    /\ ResolverIdle
    /\ fr = FrIdle /\ ix = IxIdle
    /\ sd = NotCalled /\ cli = NotCalled /\ nm = NotCalled /\ lp = NotCalled
    /\ pl \in {PlStart(data) : data \in SeedDocuments}

NextPlan == PlanCollection \/ PlanBatches

SpecPlan == InitPlan /\ [][NextPlan]_vars

InitCli ==
    /\ ResolverIdle
    /\ fr = FrIdle /\ ix = IxIdle
    /\ sd = NotCalled /\ pl = NotCalled /\ nm = NotCalled /\ lp = NotCalled
    /\ cli \in {CliStart(t, n, d, k) :
                    t \in CliTargets, n \in CliNames, d \in BOOLEAN, k \in BOOLEAN}

NextCli ==
    \/ CliApiKey
    \/ CliCollect
    \/ CliValidateName
    \/ CliKubeContext
    \/ CliAppContext
    \/ CliEnsure

SpecCli == InitCli /\ [][NextCli]_vars

InitName ==
    /\ ResolverIdle
    /\ fr = FrIdle /\ ix = IxIdle
    /\ sd = NotCalled /\ pl = NotCalled /\ cli = NotCalled /\ lp = NotCalled
    /\ nm \in {NmStart(p, c) : p \in NamePaths, c \in NameContexts}

NextName == CalculateSnapshotName \/ CalculateAgain

SpecName == InitName /\ [][NextName]_vars

\* One polling loop from its first poll on.
InitPoll ==
    /\ ResolverIdle
    /\ fr = FrIdle
    /\ sd = NotCalled /\ pl = NotCalled /\ cli = NotCalled /\ nm = NotCalled
    /\ \/ /\ lp \in {LpStart(loop) : loop \in BoundedLoops \cup {"poll_until_running"}}
          /\ ix = IxIdle
       \/ /\ lp = NotCalled
          /\ ix = IxStart

NextPoll ==
    \/ PollUntilNotLocked
    \/ WaitForSnapshotReady
    \/ PollForSnapshotCreation
    \/ PollForMeilisearchSnapshotCreation
    \/ PollUntilRunning
    \/ PollIndex
    \/ IndexTimeout

\* A loop that can poll does poll: each loop is one coroutine that the event
\* loop resumes when the awaited request, kubectl call or sleep has ended.
\* Nothing is assumed about poll_until_running.
SpecPoll ==
    /\ InitPoll /\ [][NextPoll]_vars
    /\ WF_vars(PollUntilNotLocked)
    /\ WF_vars(WaitForSnapshotReady)
    /\ WF_vars(PollForSnapshotCreation)
    /\ WF_vars(PollForMeilisearchSnapshotCreation)
    /\ WF_vars(PollIndex)
    /\ WF_vars(IndexTimeout)

-----------------------------------------------------------------------------
(* Vocabulary of the properties *)

StructuralErrors == {"circular", "unknown_folder", "missing_file"}

\* the snapshot name of a top-level seed file of the folder
NameOf(stem) == calculate_snapshot_name(PathOf(folder, stem), folder)

Ops(l, ops) == {i \in DOMAIN l : l[i].op \in ops}
Pos(l, op, name) == {i \in DOMAIN l : l[i].op = op /\ l[i].name = name}
NoWrites(l) == Ops(l, Mutations) = {}

\* the names of the create-seed requests, in the order they were issued
RECURSIVE CreateSeedNames(_)
CreateSeedNames(l) ==
    IF l = <<>> THEN <<>>
    ELSE LET rest == CreateSeedNames(SubSeq(l, 1, Len(l) - 1))
             c == l[Len(l)]
         IN  IF c.op = "create_seed" THEN Append(rest, c.name) ELSE rest

\* Did the snapshot exist when the invocation began: the run has seen it
\* without having asked for its creation, or has issued a delete for it.
ExistedAtStart(name) ==
    \/ Pos(log, "delete", name) # {}
    \/ name \in present /\ Pos(log, "create_seed", name) = {}

\* the seed file reached from stem by following base_id n times
RECURSIVE BaseAfter(_, _)
BaseAfter(stem, n) ==
    IF n = 0 THEN stem
    ELSE IF stem \in Stems /\ tree[stem] \in Stems THEN BaseAfter(tree[stem], n - 1)
    ELSE "none"

LeadsBackToItself(stem) ==
    \E n \in 1..Cardinality(Stems) : BaseAfter(stem, n) = stem
CycleOf(stem) == {BaseAfter(stem, n) : n \in 0..(Cardinality(Stems) - 1)}

\* an invocation on one file is one top-level call of ensure_snapshot_exists
OneCall == Len(json_files) = 1
TopStem == StemOf(json_files[1])

-----------------------------------------------------------------------------
(* C1 *)

StopsOf(sid) == {i \in DOMAIN log : log[i].op = "stop" /\ log[i].sid = sid}
Active(sid) == \E k \in DOMAIN stack : stack[k].sid = sid

\* C1: a session that start_session has returned is stopped exactly once by
\* the time its ensure_snapshot_exists call has returned or raised, whatever
\* failed after the start, and never twice; in fire-and-forget mode it is
\* never stopped.
C1_SessionStoppedOnce ==
    \A i \in Ops(log, {"start"}) :
        log[i].sid # 0 =>
            /\ Cardinality(StopsOf(log[i].sid)) <= 1
            /\ fire_and_forget => StopsOf(log[i].sid) = {}
            /\ (~fire_and_forget /\ ~Active(log[i].sid))
                   => Cardinality(StopsOf(log[i].sid)) = 1

\* a create-seed request has failed and its session was stopped in the finally
C1_Witness ==
    /\ outcome = "platform"
    /\ Len(log) >= 2
    /\ log[Len(log)].op = "stop"
    /\ log[Len(log) - 1].op = "create_seed"
    /\ log[Len(log)].sid = log[Len(log) - 1].sid

-----------------------------------------------------------------------------
(* C2 *)

-----------------------------------------------------------------------------
(* C3 *)

\* C3 as claimed: after a call without overwrite has returned, a second call
\* with the same arguments issues no platform mutation, fire-and-forget
\* included.
C3_Original ==
    (invocation = "same_args" /\ ~overwrite) => NoWrites(log)

\* C3 amended: the same, for calls that are not fire-and-forget.
C3_Idempotent ==
    (invocation = "same_args" /\ ~overwrite /\ ~fire_and_forget) => NoWrites(log)

\* the second of two real calls has returned; the first had started a session
C3_Witness ==
    /\ invocation = "same_args" /\ outcome = "ok"
    /\ ~overwrite /\ ~fire_and_forget /\ ~dry_run
    /\ nextSid > 1
    /\ log = <<>>

-----------------------------------------------------------------------------
(* C4 *)

Chain3(A, B, C) ==
    /\ A # B /\ B # C /\ A # C
    /\ tree[A] = B /\ tree[B] = C /\ tree[C] = Full

\* the session of file X, a diff on Y, starts from Y's snapshot after Y's
\* create-seed request and (unless handed off) after the stop of Y's session
StartsAfterBase(X, Y) ==
    /\ \A i \in Pos(log, "start", NameOf(X)) :
          /\ log[i].base = NameOf(Y)
          /\ \E j \in Pos(log, "create_seed", NameOf(Y)) :
                /\ j < i
                /\ ~fire_and_forget => \E k \in StopsOf(log[j].sid) : j < k /\ k < i
    /\ \A i \in Pos(log, "create_seed", NameOf(X)) :
          \E j \in Pos(log, "create_seed", NameOf(Y)) : j < i

C4_Order ==
    \A A, B, C \in Stems :
        (Chain3(A, B, C) /\ \A st \in {A, B, C} : ~ExistedAtStart(NameOf(st))) =>
            /\ StartsAfterBase(A, B)
            /\ StartsAfterBase(B, C)
            /\ (outcome = "ok" /\ ~dry_run /\ \E i \in DOMAIN json_files :
                                                StemOf(json_files[i]) = A)
                  => CreateSeedNames(log) = <<NameOf(C), NameOf(B), NameOf(A)>>

ForName(l, name) == Pos(l, "start", name) \cup Pos(l, "create_seed", name)

\* C4: in a diff chain A->B->C of which no snapshot exists, the create-seed
\* requests are issued for C, then B, then A, and each session starts after
\* the call for its base is over; for a snapshot that is in
\* processed_snapshots no session is started and no create-seed is issued.
C4_DiffResolutionOrder ==
    /\ []C4_Order
    /\ [][\A name \in processed_snapshots :
             Cardinality(ForName(log', name)) <= Cardinality(ForName(log, name))]_vars

\* a -> b -> c resolved from a: three snapshots created, the deepest first
C4_Witness ==
    /\ OneCall /\ Chain3("a", "b", "c")
    /\ invocation = "first" /\ outcome = "ok" /\ ~fire_and_forget
    /\ CreateSeedNames(log) = <<NameOf("c"), NameOf("b"), NameOf("a")>>

\* c was processed for an earlier top-level file and is reached again as the
\* base of the base of b
C4_ProcessedBaseReached ==
    /\ Len(stack) = 3 /\ fileIdx > 1
    /\ Top.pc = "enter" /\ Top.name \in processed_snapshots

-----------------------------------------------------------------------------
(* C5 *)

\* C5 as claimed: a status response with no index in_progress or pending and
\* one failed makes poll_index_creation_status raise at that poll, naming
\* the failed collections; with none in_progress, pending or failed it
\* returns at that poll.
C5_FailedIndexRaises ==
    ix.pc # "idle" /\ ix.last.kind = "indexes"
    /\ "in_progress" \notin ix.last.states /\ "pending" \notin ix.last.states
        => IF "failed" \in ix.last.states
           THEN ix.pc = "raised_failed"
           ELSE ix.pc = "returned"

-----------------------------------------------------------------------------
(* C6, C7 *)

Done == fr.pc \in {"returned", "raised"}
Requests == Len(fr.answers)
AllAnswers(S) == \A i \in DOMAIN fr.answers : fr.answers[i] \in S
Status5xxOr429 == {st \in Statuses : st = 429 \/ (500 <= st /\ st < 600)}

\* C6: with max_retries >= 0 there are never more than max_retries + 1
\* requests; a transport that answers every attempt with a retryable status
\* gets exactly max_retries + 1 requests and the last response is returned;
\* one that raises every time gets max_retries + 1 requests and the
\* exception is raised.
C6_AttemptBound ==
    (fr.pc # "idle" /\ fr.opts.max_retries >= 0) =>
        /\ Requests <= fr.opts.max_retries + 1
        /\ (Done /\ AllAnswers(Status5xxOr429)) =>
              /\ Requests = fr.opts.max_retries + 1
              /\ fr.pc = "returned"
              /\ fr.result = fr.answers[Requests]
        /\ (Done /\ AllAnswers({Exc})) =>
              /\ Requests = fr.opts.max_retries + 1
              /\ fr.pc = "raised"

C6_Witness ==
    /\ fr.pc = "returned"
    /\ fr.opts.max_retries = DefaultMaxRetries
    /\ fr.answers = <<503, 503, 503, 503>>

\* the response of the last attempt is what is returned
ReturnsLastAnswer ==
    fr.pc = "returned" =>
        /\ Requests >= 1
        /\ fr.answers[Requests] # Exc
        /\ fr.result = fr.answers[Requests]

\* every attempt answered with a status in Final ended the call at once
ReturnedAtOnce(Final) ==
    \A i \in DOMAIN fr.answers :
        fr.answers[i] \in Final =>
            i = Requests /\ fr.pc = "returned" /\ fr.result = fr.answers[i]

\* C7 as claimed: a success or a status outside {429} and [500,600) is
\* returned at once, and the response returned is always that of the last
\* attempt.
C7_Original ==
    fr.pc # "idle" =>
        /\ ReturnedAtOnce(Statuses \ Status5xxOr429)
        /\ ReturnsLastAnswer

\* C7 amended: a success or a status below 500 other than 429 is returned at
\* once (every status from 500 up is retried, 600 and above too), and the
\* response returned is always that of the last attempt.
C7_ReturnsWithoutRetry ==
    fr.pc # "idle" =>
        /\ ReturnedAtOnce({st \in Statuses : st < 500 /\ st # 429})
        /\ ReturnsLastAnswer

\* a 404 after one retried 503: returned after the second attempt
C7_Witness ==
    /\ fr.pc = "returned"
    /\ fr.answers = <<503, 404>>
    /\ fr.result = 404
    /\ fr.opts.max_retries = DefaultMaxRetries

-----------------------------------------------------------------------------
(* C8, C9, C10 *)

\* C8 as claimed: when a call raises a structural error no snapshot has been
\* deleted, no session started and no HTTP request sent.
C8_StructuralErrorFirst ==
    (OneCall /\ outcome \in StructuralErrors) => log = <<>>

\* C9: a dry run issues no platform mutation and no HTTP request at all.
C9_DryRunNoMutation ==
    dry_run => log = <<>>

\* a dry run with overwrite over a diff and its base, the snapshot of the
\* diff existing: nothing was deleted
C9_Witness ==
    /\ dry_run /\ overwrite /\ outcome = "ok" /\ OneCall
    /\ NameOf(TopStem) \in present
    /\ Cardinality(processed_snapshots) >= 2

\* C10 as claimed: the real run raises a structural error exactly when the
\* dry run on the same files, flags and snapshots raised it.
C10_DryRunFaithful ==
    (invocation = "after_dry_run" /\ outcome # "running") =>
        ((firstOutcome \in StructuralErrors \/ outcome \in StructuralErrors)
            => firstOutcome = outcome)

-----------------------------------------------------------------------------
(* C14 *)

RECURSIVE Flatten(_)
Flatten(seqs) == IF seqs = <<>> THEN <<>> ELSE seqs[1] \o Flatten(Tail(seqs))

\* the top-level keys other than "type", in the order of the file
Collections(data) ==
    LET kept == SelectSeq(data, LAMBDA e : e.key # "type")
    IN  [i \in DOMAIN kept |-> kept[i].key]
ValueOf(data, collection) ==
    data[CHOOSE i \in DOMAIN data : data[i].key = collection].value
\* the document chunks of the insert mutations of one collection, in order
ChunksFor(mutations, collection) ==
    LET own == SelectSeq(mutations, LAMBDA m : m.collection = collection)
    IN  [i \in DOMAIN own |-> own[i].documents]
Sizes(chunks) == [i \in DOMAIN chunks |-> Len(chunks[i])]

\* C14: for each top-level key other than "type" there is exactly one delete
\* mutation, with filter {}; the n documents of a collection are split, in
\* their order, into ceil(n/5) insert mutations, all of 5 documents except
\* possibly the last (23 give 5,5,5,5,3; 2 give one holding both; none give
\* no insert); every document is inserted exactly once; nothing is emitted
\* for "type".
C14_MutationPlan ==
    pl.pc = "planned" =>
        LET names == Collections(pl.data)
        IN  /\ pl.delete_mutations = [i \in DOMAIN names |-> DeleteMutation(names[i])]
            /\ \A i \in DOMAIN pl.insert_mutations :
                  /\ pl.insert_mutations[i].type = "insert"
                  /\ pl.insert_mutations[i].collection # "type"
            /\ \A i \in DOMAIN names :
                  LET value == ValueOf(pl.data, names[i])
                      n == Len(value.docs)
                      chunks == ChunksFor(pl.insert_mutations, names[i])
                  IN  /\ Len(chunks) = (n + 4) \div 5
                      /\ \A k \in DOMAIN chunks :
                            Len(chunks[k]) = IF k < Len(chunks) THEN 5 ELSE n - 5 * (k - 1)
                      /\ Flatten(chunks) = value.docs
                      /\ n = 23 => Sizes(chunks) = <<5, 5, 5, 5, 3>>
                      /\ n = 2 => chunks = <<value.docs>>
                      /\ n = 0 => chunks = <<>>
            /\ Len(pl.insert_mutations) =
                  Len(Flatten([i \in DOMAIN names |->
                                  ChunksFor(pl.insert_mutations, names[i])]))

\* 23 users: five insert mutations of 5, 5, 5, 5 and 3 documents, one delete
C14_Witness ==
    /\ pl.pc = "planned"
    /\ pl.data = <<Entry("type", NoList), Entry("users", Documents(23))>>
    /\ Len(pl.delete_mutations) = 1
    /\ Sizes(ChunksFor(pl.insert_mutations, "users")) = <<5, 5, 5, 5, 3>>

\* the scenario of the description: two users, one delete and one insert
C14_TwoUsers ==
    /\ pl.pc = "planned"
    /\ pl.data = <<Entry("type", NoList), Entry("users", Documents(2))>>
    /\ pl.delete_mutations = <<DeleteMutation("users")>>
    /\ pl.insert_mutations = <<InsertMutation("users", <<1, 2>>)>>

-----------------------------------------------------------------------------
(* C16 *)

\* seed_remote has gone past its argument checks
CliAccepted == cli.pc \in {"kube_context", "app_context", "loop", "complete"}

\* C16 as claimed: with --name given and --path a directory, seed_remote
\* raises before any platform activity, however many JSON files the
\* directory holds (exactly one included).
C16_NameRejectedForDirectory ==
    (cli.pc # "idle" /\ cli.target.kind = "dir" /\ cli.name = "snap") =>
        /\ ~CliAccepted
        /\ cli.activity = <<>>
        /\ cli.error \notin {"kubectx", "ensure_snapshot_exists"}

\* what the guard does reject: the override with two or more files
C16_NameRejectedForManyFiles ==
    (cli.pc # "idle" /\ cli.name = "snap" /\ Len(cli.json_files) > 1) =>
        /\ ~CliAccepted
        /\ cli.activity = <<>>

\* a directory holding exactly one JSON file, seeded under the override
C16_OneFileDirectoryAccepted ==
    /\ cli.pc = "complete"
    /\ cli.target.kind = "dir" /\ cli.name = "snap"
    /\ cli.activity = <<<<"kubectx">>, <<"ensure", <<"jd", "a.json">>, "snap", None>>>>

-----------------------------------------------------------------------------
(* C17 *)

\* the innermost call, after a step that has neither ended nor nested it
SameCall == stack # <<>> /\ Len(stack') = Len(stack)
TopAfter == stack'[Len(stack')]
Raised(f) == f.pc = "finally" /\ f.exc # None
LastCall(l, op, sid) == l # <<>> /\ l[Len(l)].op = op /\ l[Len(l)].sid = sid

\* create_seed answered with "running sessions" and the snapshot was then
\* observed: the call is past poll_for_snapshot_creation
SnapshotObserved(f) == f.pc \in {"recover_meili", "recover_locked", "recover_stop"}

\* C17 as claimed: once the snapshot has been observed after a "running
\* sessions" answer, the operation is a success, so no later step of the
\* call raises.
C17_Original ==
    [][(stack # <<>> /\ SnapshotObserved(Top)) => (SameCall /\ ~Raised(TopAfter))]_vars

\* the steps of the call from the create-seed request on
C17_Step ==
    /\ (At("create_seed") /\ ~fire_and_forget) =>
          /\ SameCall
          /\ log' = Append(log, Call("create_seed", Top.sid, Top.name, NoName))
          /\ \/ TopAfter.pc = "poll_locked"
             \/ TopAfter.pc = "recover_poll"
             \/ Raised(TopAfter)          \* raised with no poll of any kind
    /\ At("recover_poll") =>
          /\ SameCall /\ log' = log
          /\ \/ TopAfter.pc = "recover_meili" /\ Top.name \in present'
             \/ Raised(TopAfter) /\ Top.name \in absent'
    /\ At("recover_meili") =>
          SameCall /\ log' = log /\ TopAfter.pc = "recover_locked"
    /\ At("recover_locked") =>
          /\ SameCall
          /\ log' = Append(log, Call("status", Top.sid, Top.name, NoName))
          /\ TopAfter.pc = "recover_stop" \/ Raised(TopAfter)
    /\ At("recover_stop") =>
          /\ SameCall
          /\ log' = Append(log, Call("stop", Top.sid, Top.name, NoName))
          /\ TopAfter.pc = "finish" /\ TopAfter.session_ended
    /\ (At("finish") /\ Top.session_ended) =>
          /\ SameCall /\ log' = log
          /\ TopAfter.pc = "finally" /\ TopAfter.exc = None
          /\ Top.name \in processed_snapshots'
    /\ (At("finally") /\ Top.session_ended) =>
          /\ log' = log
          /\ Top.exc = None /\ outcome' \in {"running", "ok"}
          /\ Len(stack) > 1 => TopAfter.base = Top.name

\* C17 amended: after HTTP 400 "running sessions", (a) if the snapshot is
\* observed, the secondary snapshot is polled for without effect on the
\* result, then poll_until_not_locked runs: if it returns, the session is
\* stopped once (inside create_seed, not again in the finally), the snapshot
\* is marked processed and its name returned; if it raises, the call raises;
\* (b) if the snapshot is not observed the call raises. Any other
\* non-success create-seed response raises without polling.
C17_RunningSessionsRecovery ==
    /\ [][C17_Step]_vars
    /\ [](\A k \in DOMAIN stack :
            stack[k].session_ended =>
                /\ ~fire_and_forget
                /\ stack[k].exc = None
                /\ Cardinality(StopsOf(stack[k].sid)) = 1
                /\ LastCall(log, "stop", stack[k].sid)
                /\ stack[k].name \in present)

\* the recovery has succeeded: the session was stopped inside create_seed
C17_Witness ==
    /\ At("finally") /\ Top.session_ended
    /\ Top.name \in processed_snapshots
    /\ MeiliName(Top.name) \notin present
    /\ LastCall(log, "stop", Top.sid)

-----------------------------------------------------------------------------
(* C18 *)

\* a sequence without its "-" and "_" entries
RECURSIVE Words(_)
Words(seq) ==
    IF seq = <<>> THEN <<>>
    ELSE IF seq[1] \in {"-", "_"} THEN Words(Tail(seq))
    ELSE <<seq[1]>> \o Words(Tail(seq))

\* the folder the name begins with: app_context when given, else the name of
\* the directory that holds the file
NameFolder ==
    IF nm.app_context \in {"jd", "my_app", "x_y_z"} THEN nm.app_context
    ELSE IF Len(nm.json_path) = 1 THEN "dojo"
    ELSE nm.json_path[Len(nm.json_path) - 1]

\* C18: the result is "{folder}-{stem}" with every underscore replaced by a
\* hyphen, folder being app_context when given and the parent directory's
\* name otherwise; it holds no underscore; the same arguments give the same
\* result, in both copies of the function and when called again;
\* initial-backend-data/jd/login_flow.json with no app_context gives
\* jd-login-flow.
C18_SnapshotName ==
    nm.pc \in {"returned", "returned_again"} =>
        LET head == Chars(NameFolder)
            stem == Chars(PathStem(nm.json_path[Len(nm.json_path)]))
        IN  /\ Len(nm.result) = Len(head) + 1 + Len(stem)
            /\ nm.result[Len(head) + 1] = "-"
            /\ \A i \in DOMAIN nm.result : nm.result[i] # "_"
            /\ \A i \in DOMAIN head : nm.result[i] = IF head[i] = "_" THEN "-" ELSE head[i]
            /\ \A i \in DOMAIN stem :
                  nm.result[Len(head) + 1 + i] = IF stem[i] = "_" THEN "-" ELSE stem[i]
            /\ Words(nm.result) = Words(head) \o Words(stem)
            /\ nm.status_result = nm.result
            /\ (nm.json_path = <<"initial-backend-data", "jd", "login_flow.json">>
                /\ nm.app_context = None)
                  => nm.result = <<"jd", "-", "login", "-", "flow">>

\* the example of the description
C18_Witness ==
    /\ nm.pc = "returned"
    /\ nm.json_path = <<"initial-backend-data", "jd", "login_flow.json">>
    /\ nm.app_context = None
    /\ nm.result = <<"jd", "-", "login", "-", "flow">>

\* underscores in the app context and in the stem, several of them
C18_ManyUnderscores ==
    /\ nm.pc = "returned_again"
    /\ nm.app_context = "my_app" /\ nm.json_path = <<"x_y_z.json">>
    /\ nm.result = <<"my", "-", "app", "-", "x", "-", "y", "-", "z">>

-----------------------------------------------------------------------------
(* C19 *)

IsDiff(stem) == tree[stem] # Full
\* the snapshot name of the base of a diff file of the folder
BaseNameOf(stem) ==
    IF tree[stem] = INITIAL_DATA_SPECIAL_ID
    THEN <<folder, "-", "initial", "-", "data">>
    ELSE NameOf(tree[stem])
CallsOf(op, sid) == {j \in DOMAIN log : log[j].op = op /\ log[j].sid = sid}

\* C19: the session of a diff seed is started once the call for its base has
\* returned, with snapshot_name the base's snapshot name (for base_id
\* initial_data: that of the app folder's mapped initial-data file); it gets
\* at most len(transactions) transaction calls, exactly that many before its
\* create-seed request, and no create-search-index and no index-status
\* request.
C19_DiffSeedSession ==
    \A st \in Stems : \A i \in Pos(log, "start", NameOf(st)) :
        IsDiff(st) =>
            LET sid == log[i].sid
                sent == Cardinality(CallsOf("transaction", sid))
            IN  /\ log[i].base = BaseNameOf(st)
                /\ log[i].base \in processed_snapshots
                /\ sid # 0 =>
                      /\ sent <= TransactionsOf(PathOf(folder, st))
                      /\ CallsOf("create_seed", sid) # {}
                            => sent = TransactionsOf(PathOf(folder, st))
                      /\ \A j \in CallsOf("transaction", sid) : i < j
                /\ Pos(log, "create_index", NameOf(st)) = {}
                /\ Pos(log, "index_status", NameOf(st)) = {}

\* a.json, a diff on initial_data with two transactions, has been seeded in a
\* session forked from the snapshot of jd's initial data, created before it
C19_Witness ==
    /\ OneCall /\ folder = "jd" /\ tree["a"] = INITIAL_DATA_SPECIAL_ID
    /\ outcome = "ok" /\ ~dry_run
    /\ Pos(log, "create_index", BaseNameOf("a")) # {}
    /\ \E i \in Pos(log, "start", NameOf("a")) :
          /\ log[i].base = <<"jd", "-", "initial", "-", "data">>
          /\ Cardinality(CallsOf("transaction", log[i].sid)) = 2
          /\ Pos(log, "create_seed", NameOf("a")) # {}

-----------------------------------------------------------------------------
(* C20 *)

DefaultProfile(opts) ==
    opts.base_delay_ms = DefaultBaseDelayMs /\ opts.max_delay_ms = DefaultMaxDelayMs
CreateSeedProfile(opts) ==
    opts.base_delay_ms = CreateSeedBaseDelayMs /\ opts.max_delay_ms = CreateSeedMaxDelayMs
IsPrefix(s, t) == Len(s) <= Len(t) /\ \A i \in DOMAIN s : s[i] = t[i]

\* C20: the delay slept after attempt k (k = 0, 1, ...) is
\* min(base_delay_ms * 2^k, max_delay_ms), after a retryable status and after
\* an exception alike; the delays never decrease and never exceed
\* max_delay_ms; the defaults give 1000, 2000, 4000 ms and the create-seed
\* profile 2000, 4000, 8000 ms; one delay is slept after every attempt but the
\* last, and none after the last.
C20_BackoffSchedule ==
    fr.pc # "idle" =>
        /\ \A i \in DOMAIN fr.delays :
              LET doubled == fr.opts.base_delay_ms * (2 ^ (i - 1))
              IN  /\ fr.delays[i] = IF doubled < fr.opts.max_delay_ms
                                    THEN doubled ELSE fr.opts.max_delay_ms
                  /\ fr.delays[i] <= fr.opts.max_delay_ms
                  /\ i > 1 => fr.delays[i - 1] <= fr.delays[i]
        /\ DefaultProfile(fr.opts) =>
              IsPrefix(fr.delays, <<1000, 2000, 4000, 8000, 10000, 10000>>)
        /\ CreateSeedProfile(fr.opts) => IsPrefix(fr.delays, <<2000, 4000, 8000>>)
        /\ fr.pc = "loop" => Len(fr.delays) = Requests
        /\ (Done /\ Requests >= 1) => Len(fr.delays) = Requests - 1

\* the create-seed profile retried to the end, after exceptions and statuses
C20_Witness ==
    /\ fr.pc = "returned"
    /\ CreateSeedProfile(fr.opts)
    /\ fr.answers = <<Exc, 503, 429, 500>>
    /\ fr.delays = <<2000, 4000, 8000>>

\* a backoff that reached its cap
C20_CapReached ==
    /\ Done
    /\ fr.opts.max_delay_ms = TightMaxDelayMs
    /\ fr.delays = <<1000, 2000, 3000>>

-----------------------------------------------------------------------------
(* C13: replay of the transactions of a diff seed *)

Distinct(seq) == {seq[p] : p \in DOMAIN seq}

\* C13: apply_transactions sends the transactions of a diff seed in their
\* array order, each in one call of send_transaction (whose request
\* fetch_with_retry may repeat), never two at a time; the request for
\* transaction i + 1 is sent only after the call for transaction i returned a
\* success response, so after a call that failed no later transaction is
\* sent; and when the replay is over every transaction has been sent.
C13_DiffReplayOrder ==
    sd.seed.kind = "diff" =>
        LET sent == sd.sent
            total == Len(sd.seed.transactions)
        IN  /\ \A p \in DOMAIN sent : sent[p] \in 1..total
            /\ sent # <<>> => sent[1] = 1
            /\ \A p \in 1..(Len(sent) - 1) : sent[p + 1] \in {sent[p], sent[p] + 1}
            /\ \A p \in DOMAIN sent :
                  \A i \in 1..(sent[p] - 1) :
                      i \in DOMAIN sd.results /\ is_success(sd.results[i])
            /\ \A i \in 1..total :
                  Cardinality({p \in DOMAIN sent : sent[p] = i}) <= DefaultMaxRetries + 1
            /\ Started(sd) = Cardinality(Distinct(sent))
            /\ InFlight(sd) <= 1
            /\ sd.pc \notin {"create", "wait_ready", "start", "poll_running", "apply"}
                  /\ ~sd.error => Distinct(sent) = 1..total
            /\ sd.seed_requested => Distinct(sent) = 1..total

\* three transactions replayed, the first of them after a retry
C13_Witness ==
    /\ sd.seed.kind = "diff"
    /\ sd.sent = <<1, 1, 2, 3>>
    /\ sd.results = <<200, 200, 200>>
    /\ sd.pc = "exited" /\ ~sd.error

\* the second of three transactions is refused: the third is never sent
C13_FailureStopsReplay ==
    /\ sd.seed.kind = "diff"
    /\ Len(sd.seed.transactions) = 3
    /\ sd.sent = <<1, 2>>
    /\ sd.results = <<200, 400>>
    /\ sd.pc = "exited" /\ sd.error

-----------------------------------------------------------------------------
(* C15: the call schedule of seed_full_data *)

LastStarted(s) == s.schedule[s.next - 1]
SizesBefore(s) == Sum([i \in 1..(s.next - 1) |-> s.schedule[i].size])

\* the schedule: delete calls alone, before the insert calls, which come in
\* groups of at most ParallelBatches
C15_Groups(s) ==
    \A i \in DOMAIN s.schedule :
        /\ s.schedule[i].phase \in {"delete", "insert"}
        /\ s.schedule[i].phase = "delete" => s.schedule[i].size = 1
        /\ s.schedule[i].size \in 1..ParallelBatches
        /\ \A j \in DOMAIN s.schedule :
              s.schedule[i].phase = "delete" /\ s.schedule[j].phase = "insert" => i < j

C15_State ==
    sd.seed.kind = "full" =>
        /\ C15_Groups(sd)
        /\ InFlight(sd) <= ParallelBatches
        /\ sd.next > 1 /\ LastStarted(sd).phase = "delete" => InFlight(sd) <= 1

\* a step that starts calls: every call started before has returned
C15_Step ==
    sd.seed.kind = "full" /\ sd'.next = sd.next + 1 =>
        /\ InFlight(sd) = 0
        /\ sd.failed = 0
        /\ sd.ok = SizesBefore(sd)
        /\ InFlight(sd') = sd.schedule[sd.next].size

\* C15: seed_full_data issues its delete batch calls one at a time, and the
\* first insert batch call only after every delete call has returned; it
\* issues the insert batch calls in groups of at most 20 and starts a group
\* only after every call of the group before has returned, so that never
\* more than 20 transaction requests of the session are in flight.
C15_CallSchedule == [][C15_Step]_vars /\ []C15_State

\* 21 insert batches: the 21st is in flight, after the 20 of the first group
C15_Witness ==
    /\ sd.seed.kind = "full"
    /\ Len(sd.seed.insert_mutations) = 101
    /\ sd.next = Len(sd.schedule) + 1
    /\ LastStarted(sd).phase = "insert"
    /\ sd.ok = 1 + ParallelBatches
    /\ InFlight(sd) = 1

\* 20 requests of one group in flight at once, some of them retries
C15_FullGroupInFlight ==
    /\ sd.seed.kind = "full"
    /\ InFlight(sd) = ParallelBatches
    /\ sd.in_flight[1] < ParallelBatches

-----------------------------------------------------------------------------
(* C11: when the create-seed request is issued *)

Calls(s) == Sum([i \in DOMAIN s.schedule |-> s.schedule[i].size])

\* every data call of the session was made and returned a success response
DataComplete(s) ==
    /\ s.next = Len(s.schedule) + 1
    /\ s.failed = 0
    /\ InFlight(s) = 0
    /\ s.ok = Calls(s)
    /\ \A i \in DOMAIN s.results : is_success(s.results[i])
    /\ s.seed.kind = "diff" => Len(s.results) = Len(s.seed.transactions)

\* C11, the part about the data: the create-seed request (awaited or fire and
\* forget) is issued only when every transaction or mutation batch call of
\* the session has returned success and, for a full seed,
\* create_meilisearch_indices has returned.
C11_SeedAfterData ==
    sd.seed_requested =>
        /\ DataComplete(sd)
        /\ sd.seed.kind = "full" => sd.index \in {"skipped", "completed"}

\* C11: the create-seed request of a session is issued only after every
\* mutation batch or diff transaction returned success and, for a full seed,
\* index creation completed without failure; when a data call failed, or
\* index creation failed or timed out, no create-seed request is issued.
C11_NoSnapshotOfPartialSeed ==
    /\ C11_SeedAfterData
    /\ sd.failed > 0 \/ sd.index = "raised" \/ sd.index_failed => ~sd.seed_requested

\* a full seed of 21 insert batches, its indexes created, the seed requested
C11_SeedRequested ==
    /\ sd.seed.kind = "full"
    /\ Len(sd.seed.insert_mutations) = 101
    /\ sd.index = "completed"
    /\ sd.seed_requested

-----------------------------------------------------------------------------
(* C12: after a call has failed *)

\* a step in which a POST {url}/transaction goes out: a first request or a retry
SendsRequest ==
    \E k \in DOMAIN sd.in_flight : sd'.in_flight[k] > sd.in_flight[k]

C12_Step == sd.failed > 0 => ~SendsRequest

\* the same, from the stop request of the finally block on
C12_AfterStop == sd.stop_requested => ~SendsRequest

C12_SequentialCalls ==
    [][sd.failed > 0 /\ (sd.seed.kind = "diff" \/ LastStarted(sd).phase = "delete")
         => ~SendsRequest]_vars

-----------------------------------------------------------------------------
(* C22: the base snapshot is ready before a session is started from it *)

ReadyToUse(answer) == answer \in {"true", "True"}

\* C22: a start_session request that carries a base snapshot name is issued
\* only after the base's readyToUse was observed true in the same call, with
\* and without fire-and-forget; the wait for it ends after 300 s, and then
\* the call raises without having started a session.
C22_BaseReadyBeforeStart ==
    sd.seed.kind = "diff" =>
        /\ sd.start_requested \/ sd.pc = "start" => ReadyToUse(sd.ready_answer)
        /\ sd.pc = "wait_ready" => sd.elapsed <= ReadyTimeoutSeconds
        /\ sd.pc = "exited" /\ ~ReadyToUse(sd.ready_answer) =>
              sd.error /\ ~sd.start_requested /\ sd.session_id = None

\* a fire-and-forget diff seed whose base became ready during the wait
C22_Witness ==
    /\ sd.seed.kind = "diff" /\ sd.seed.fire_and_forget
    /\ sd.start_requested
    /\ sd.ready_answer = "True"
    /\ sd.session_id # None

\* the base never became ready
C22_NotReadyRaises ==
    /\ sd.seed.kind = "diff"
    /\ sd.pc = "exited" /\ sd.error
    /\ sd.ready_answer = "false"

-----------------------------------------------------------------------------
(* C25: nothing is sent to a session before it is RUNNING *)

\* a transaction, create-search-index or create-seed request was sent
SessionUsed(s) ==
    \/ Started(s) > 0
    \/ s.index \notin {"none", "skipped"}
    \/ s.seed_requested

\* C25: poll_until_running goes on polling only while the status is QUEUED,
\* returns only on a status response of RUNNING, and raises on any other
\* status and on a status request that failed; so no transaction,
\* create-search-index or create-seed request is sent for a session for
\* which RUNNING was not observed.
C25_RunningBeforeUse ==
    /\ sd.pc = "poll_running" => sd.status \in {None, "QUEUED"}
    /\ sd.pc \in {"create", "wait_ready", "start"} => sd.status = None
    /\ sd.status \notin {None, "QUEUED", "RUNNING"} =>
          sd.error /\ sd.pc \in {"stopping", "exited"}
    /\ sd.pc \notin {"create", "wait_ready", "start", "poll_running"}
          /\ sd.status # "RUNNING" => sd.error /\ ~SessionUsed(sd)
    /\ SessionUsed(sd) => sd.status = "RUNNING"

\* a session seen RUNNING, with the request of a diff transaction in flight
C25_Witness ==
    /\ sd.status = "RUNNING"
    /\ sd.pc = "apply"
    /\ InFlight(sd) = 1
    /\ sd.seed.kind = "diff"

\* a session found LOCKED while waiting for RUNNING
C25_LockedRaises ==
    /\ sd.status = "LOCKED"
    /\ sd.pc = "exited" /\ sd.error
    /\ sd.stop_requested

-----------------------------------------------------------------------------
(* C21: the stop request after a create-seed request *)

\* poll_until_not_locked has received a status other than LOCKED
Unlocked(s) == s.lock_status \in SessionStatuses \ {"LOCKED"}

\* C21: when a create-seed request was issued for the session and a stop
\* request is issued after it, poll_until_not_locked has completed in
\* between, having observed a status other than LOCKED; also when create-seed
\* failed and when the poll timed out.
C21_UnlockedBeforeStop ==
    sd.seed_requested /\ sd.stop_requested => Unlocked(sd)

\* what holds: a call that ends without an error has seen the session
\* unlocked before its stop request
C21_WhenNoError ==
    sd.seed_requested /\ sd.stop_requested /\ ~sd.error => Unlocked(sd)

\* the stop request of a session still LOCKED after 300 s
C21_StopAfterLockedTimeout ==
    /\ sd.seed_requested /\ sd.stop_requested
    /\ sd.lock_status = "LOCKED"
    /\ sd.error

-----------------------------------------------------------------------------
(* C30: every request is retried by fetch_with_retry *)

\* an answer on which fetch_with_retry sends the request again
Retryable(answer) == answer.status = Exc \/ should_retry(answer.status)

\* the create-seed request has its final answer
SeedAnswered(s) ==
    /\ s.seed_requested
    /\ IF s.seed.fire_and_forget THEN s.forgotten = "answered"
       ELSE s.pc # "create_seed"

\* C30: every outbound request goes through fetch_with_retry, the create-seed
\* request in normal and in fire-and-forget mode included: a request answered
\* by 5xx, 429 or a transport exception is sent again under the backoff
\* policy, until max_retries + 1 requests have been made.
C30_EveryRequestRetried ==
    SeedAnswered(sd) /\ Retryable(sd.seed_answer) =>
        sd.seed_requests = DefaultMaxRetries + 1

\* what holds: the create-seed request of create_seed is retried
C30_AwaitedRequestRetried ==
    ~sd.seed.fire_and_forget /\ SeedAnswered(sd) /\ Retryable(sd.seed_answer) =>
        sd.seed_requests = DefaultMaxRetries + 1

\* a fire-and-forget create-seed request answered 503 and not sent again
C30_ForgottenNotRetried ==
    /\ sd.seed.fire_and_forget
    /\ sd.forgotten = "answered"
    /\ sd.seed_answer.status = 503
    /\ sd.seed_requests = 1

-----------------------------------------------------------------------------
(* C28: fire-and-forget mode *)

\* a step of the forgotten task: it changes what the task knows, nothing else
C28_Step ==
    sd.forgotten = "in_flight" /\ sd'.forgotten = "answered" =>
        /\ sd'.pc = sd.pc
        /\ sd'.error = sd.error
        /\ sd'.processed = sd.processed
        /\ sd'.stop_requested = sd.stop_requested
        /\ sd'.lock_status = sd.lock_status

C28_State ==
    sd.seed.fire_and_forget =>
        /\ sd.pc \notin {"poll_locked", "recover_poll", "recover_locked"}
        /\ sd.lock_status = None
        /\ sd.seed_requests <= 1
        /\ sd.seed_requested =>
              /\ sd.pc = "exited"
              /\ sd.processed
              /\ ~sd.error
              /\ ~sd.stop_requested

\* C28: in fire-and-forget mode the create-seed request is submitted and
\* ensure_snapshot_exists goes on without its response: it never enters the
\* recovery polling for the "running sessions" error, never polls the status
\* for LOCKED, has the name in processed_snapshots and returns normally
\* whatever the request is answered, before or after the answer.
C28_FireAndForget == [][C28_Step]_vars /\ []C28_State

\* the call has returned, the name is processed, the request is unanswered
C28_Witness ==
    /\ sd.seed.fire_and_forget
    /\ sd.pc = "exited" /\ sd.processed /\ ~sd.error
    /\ sd.forgotten = "in_flight"

\* the same call, its request refused with the "running sessions" error
C28_RefusedUnnoticed ==
    /\ sd.seed.fire_and_forget
    /\ sd.pc = "exited" /\ sd.processed /\ ~sd.error
    /\ sd.forgotten = "answered"
    /\ RunningSessionsError(sd.seed_answer)

-----------------------------------------------------------------------------
(* C24: the lifetime of a session *)

\* sessions that start_session has returned and that have no stop request yet
Unstopped ==
    {log[i].sid : i \in {j \in Ops(log, {"start"}) :
                            log[j].sid # 0 /\ StopsOf(log[j].sid) = {}}}

\* C24: without fire-and-forget, when a call of ensure_snapshot_exists has
\* returned or raised, a stop request has been issued for the session it
\* started; a session is started only when every session started before in
\* the run has its stop request (the base before the dependent, one top-level
\* file before the next), so at most one session is without one, and that
\* session belongs to the innermost call in progress.
C24_SessionLifetime ==
    ~fire_and_forget =>
        /\ Cardinality(Unstopped) <= 1
        /\ \A sid \in Unstopped : stack # <<>> /\ Top.sid = sid
        /\ \A k \in DOMAIN stack : k < Len(stack) => stack[k].sid = 0
        /\ \A i, j \in Ops(log, {"start"}) :
              i < j /\ log[i].sid # 0 =>
                  \E k \in StopsOf(log[i].sid) : k < j

\* a diff file and its base, each with a session: the base's session was
\* stopped before the dependent's was started, and both calls have returned
C24_Witness ==
    /\ ~fire_and_forget /\ outcome = "ok" /\ stack = <<>>
    /\ \E i, j \in Ops(log, {"start"}) :
          /\ i < j
          /\ log[i].sid # 0 /\ log[j].sid # 0
          /\ log[j].base = log[i].name
          /\ \E k \in StopsOf(log[i].sid) : k < j
          /\ StopsOf(log[j].sid) # {}

\* in fire-and-forget mode two sessions of one run are left without a stop
C24_ForgottenSessions ==
    fire_and_forget /\ Cardinality(Unstopped) >= 2

-----------------------------------------------------------------------------
(* C27: overwrite *)

\* where a call is between the deletes of lines 836-850 and its create-seed
\* request
PastDeletes ==
    {"load", "await_base", "create", "start", "poll_running", "seed", "indices",
     "create_seed"}

DeletedInRun(name) == \E i \in Ops(log, {"delete"}) : log[i].name = name

\* with overwrite, once a call is past its deletes its snapshot is not one
\* that is known to exist, and when the primary was deleted neither is the
\* secondary
C27_State ==
    overwrite /\ ~dry_run =>
        \A k \in DOMAIN stack :
            stack[k].pc \in PastDeletes =>
                /\ stack[k].name \notin present
                /\ DeletedInRun(stack[k].name) =>
                      MeiliName(stack[k].name) \notin present

\* a delete of a name, primary or secondary, comes before the session and
\* the create-seed request of that name
C27_Order ==
    \A i \in Ops(log, {"delete"}) :
        /\ overwrite
        /\ \A j \in Ops(log, {"start", "create_seed"}) :
              log[i].name \in {log[j].name, MeiliName(log[j].name)} => i < j

\* a step that deletes: the primary is one the call has seen to exist, the
\* secondary one it has not seen to be absent
C27_Step ==
    Len(log') = Len(log) + 1 /\ log'[Len(log')].op = "delete" =>
        /\ log'[Len(log')].name \notin absent
        /\ Top.pc = "delete" =>
              log'[Len(log')].name = Top.name /\ Top.name \in present
        /\ Top.pc = "delete_meili" =>
              log'[Len(log')].name = MeiliName(Top.name) /\ DeletedInRun(Top.name)

\* C27: with overwrite and without dry run, a file of the dependency chain
\* whose snapshot exists and is not yet processed has its primary snapshot
\* deleted, and the meilisearch- secondary when that is present, before its
\* session is started and before its create-seed request; a delete of a name
\* is never issued after the create-seed request for that name; and only a
\* snapshot seen to exist is deleted.
C27_Overwrite == [][C27_Step]_vars /\ [](C27_State /\ C27_Order)

\* a diff file and its base, both existing with their secondaries: four
\* deletes, then the base is recreated, then the dependent
C27_Witness ==
    /\ overwrite /\ ~dry_run /\ outcome = "ok"
    /\ \E a, b \in Ops(log, {"create_seed"}) :
          /\ a < b
          /\ log[a].name # log[b].name
          /\ \A c \in {a, b} :
                /\ \E i \in Ops(log, {"delete"}) : i < c /\ log[i].name = log[c].name
                /\ \E i \in Ops(log, {"delete"}) :
                      i < c /\ log[i].name = MeiliName(log[c].name)
          /\ \E j \in Ops(log, {"start"}) : a < j /\ j < b /\ log[j].base = log[a].name

\* the secondary is absent: only the primary is deleted
C27_NoSecondary ==
    /\ overwrite /\ ~dry_run /\ outcome = "ok"
    /\ Cardinality(Ops(log, {"delete"})) = 1
    /\ Ops(log, {"create_seed"}) # {}

-----------------------------------------------------------------------------
(* C23: one run over a directory *)

SeedRequests(name) == {i \in Ops(log, {"create_seed"}) : log[i].name = name}

C23_State ==
    \A i, j \in Ops(log, {"create_seed"}) :
        log[i].name = log[j].name =>
            /\ log[i].sid = log[j].sid
            /\ Cardinality(SeedRequests(log[i].name)) <= DefaultMaxRetries + 1
            /\ \A k \in DOMAIN log : i < k /\ k < j => log[k] = log[i]

\* a step of the run: processed_snapshots only grows, and no delete, session
\* or create-seed request is issued for a name that is in it
C23_Step ==
    /\ processed_snapshots \subseteq processed_snapshots'
    /\ \A k \in (DOMAIN log') \ (DOMAIN log) :
          log'[k].op \in {"delete", "start", "create_seed"} =>
              /\ log'[k].name \notin processed_snapshots
              /\ \A name \in processed_snapshots : log'[k].name # MeiliName(name)

C23_FourRequests ==
    \E i \in Ops(log, {"create_seed"}) :
        Cardinality(SeedRequests(log[i].name)) = DefaultMaxRetries + 1

-----------------------------------------------------------------------------
(* C29: visited and the recursion stack *)

\* the paths of the calls in progress that are past the check of line 801
PathsInProgress == {stack[k].path : k \in {j \in DOMAIN stack : stack[j].pc # "enter"}}

\* a call between its return statement (lines 953-957) and the end of its
\* finally block
Returning(f) == f.pc = "finally" /\ f.exc = None

\* C29 as claimed: at every point of a run visited contains exactly the
\* paths of the files whose ensure_snapshot_exists call is in progress.
C29_VisitedIsStack ==
    outcome = "running" => visited = PathsInProgress

\* C29, amended: visited contains exactly the paths of the calls in progress
\* that have passed the circular dependency check and have not reached their
\* return statement: a call that has created its snapshot removes its path
\* at line 955 and is still in progress while its finally block stops the
\* session. No path is past the check twice, a run that returns normally
\* leaves visited empty, and the circular dependency error is raised only
\* when the base chain of a file leads back to a file of the chain, so a
\* file resolved earlier in the run is resolved again without that error.
C29_VisitedUntilReturn ==
    /\ outcome = "running" =>
          visited = PathsInProgress \ {stack[k].path :
                                         k \in {j \in DOMAIN stack : Returning(stack[j])}}
    /\ \A j, k \in DOMAIN stack :
          (/\ stack[j].path = stack[k].path
           /\ stack[j].pc # "enter" /\ stack[k].pc # "enter") => j = k
    /\ \A k \in DOMAIN stack : Returning(stack[k]) => k = Len(stack)
    /\ outcome = "ok" => visited = {}
    /\ outcome = "circular" =>
          \E i \in DOMAIN json_files : \E st \in CycleOf(StemOf(json_files[i])) :
              st \in Stems /\ LeadsBackToItself(st)

\* the base of a diff file has sent its create-seed request and stops its
\* session: its path has left visited, the dependent's is in it
C29_Witness ==
    /\ outcome = "running" /\ Len(stack) = 2
    /\ Returning(Top) /\ NeedsStop(Top)
    /\ visited = {stack[1].path}
    /\ Top.path \notin visited

\* the third file of a directory is the base of the first: it is resolved a
\* second time and the run returns normally
C29_ResolvedAgain ==
    /\ Len(json_files) = 3 /\ tree["a"] = "c" /\ tree["c"] = Full
    /\ outcome = "ok" /\ visited = {}
    /\ \E i \in Ops(log, {"create_seed"}) : log[i].name = NameOf("c")

-----------------------------------------------------------------------------
(* C26: the polling loops end *)

PollInterval(loop) ==
    CASE loop = "poll_until_not_locked" -> LockedPollInterval
      [] loop = "wait_for_snapshot_ready" -> ReadyPollInterval
      [] OTHER -> CreationPollInterval

PollTimeout(loop) ==
    CASE loop = "poll_until_not_locked" -> LockedTimeoutSeconds
      [] loop = "wait_for_snapshot_ready" -> ReadyTimeoutSeconds
      [] OTHER -> CreationTimeoutSeconds

C26_Bounded ==
    lp.pc # "idle" /\ lp.loop \in BoundedLoops =>
        /\ lp.loop \in {"poll_until_not_locked", "wait_for_snapshot_ready"} =>
              lp.polls <= 30
        /\ lp.loop \in {"poll_for_snapshot_creation",
                         "poll_for_meilisearch_snapshot_creation"} => lp.polls <= 9
        /\ lp.elapsed <= PollTimeout(lp.loop)
        /\ lp.pc = "poll" => lp.elapsed = lp.polls * PollInterval(lp.loop)
        /\ lp.pc = "done" /\ lp.elapsed = PollTimeout(lp.loop) =>
              lp.result = IF lp.loop = "poll_until_not_locked" THEN "raised"
                          ELSE "False"

C26_Index ==
    ix.pc # "idle" =>
        /\ ix.polls <= 120
        /\ ix.elapsed <= IndexTimeoutSeconds
        /\ ix.pc # "poll" /\ ix.elapsed = IndexTimeoutSeconds =>
              ix.pc = "raised_timeout"

C26_Running ==
    lp.pc # "idle" /\ lp.loop = "poll_until_running" =>
        /\ lp.pc = "poll" => lp.last \in {None, "QUEUED"}
        /\ lp.pc = "done" =>
              /\ lp.last # "QUEUED"
              /\ lp.result = IF lp.last = "RUNNING" THEN "returned" ELSE "raised"

\* a poll of poll_until_running: QUEUED keeps the loop polling, any other
\* answer ends it
C26_Step ==
    lp.pc = "poll" /\ lp.loop = "poll_until_running" =>
        /\ lp'.last = "QUEUED" => lp'.pc = "poll"
        /\ lp'.last \notin {None, "QUEUED"} => lp'.pc = "done"

C26_Ended ==
    \/ lp.pc = "idle" /\ ix.pc # "poll"
    \/ lp.pc = "done"
    \/ lp.pc = "poll" /\ lp.loop = "poll_until_running"

\* C26: every polling loop but poll_until_running ends whatever it is
\* answered: poll_until_not_locked and wait_for_snapshot_ready after at most
\* 30 polls, poll_for_snapshot_creation and
\* poll_for_meilisearch_snapshot_creation after at most 9,
\* poll_index_creation_status after at most 120, with an error or False when
\* the polls are used up. poll_until_running polls again after every QUEUED
\* answer, without a limit, and ends at the first answer that is not QUEUED.
C26_PollingTerminates ==
    /\ [][C26_Step]_vars
    /\ [](C26_Bounded /\ C26_Index /\ C26_Running)
    /\ <>C26_Ended

\* poll_until_not_locked raises after 30 polls answered LOCKED
C26_Witness ==
    /\ lp.pc = "done" /\ lp.loop = "poll_until_not_locked"
    /\ lp.polls = 30 /\ lp.last = "LOCKED"
    /\ lp.elapsed = LockedTimeoutSeconds
    /\ lp.result = "raised"

\* poll_for_snapshot_creation returns False after 9 polls
C26_NotCreated ==
    /\ lp.pc = "done" /\ lp.loop = "poll_for_snapshot_creation"
    /\ lp.polls = 9 /\ lp.result = "False"

\* poll_index_creation_status raises after 120 polls
C26_IndexTimeout ==
    ix.pc = "raised_timeout" /\ ix.polls = 120

\* poll_until_running still polls after more polls than any other loop makes
C26_StillQueued ==
    /\ lp.pc = "poll" /\ lp.loop = "poll_until_running"
    /\ lp.polls = MaxRunningPolls /\ lp.last = "QUEUED"

====
